---- MODULE Spec2Model ----
(***************************************************************************)
(* Verification model of the HITL customer-support backend                 *)
(* (germainelry/chatbot-mvp-hf, backend/app).                              *)
(*                                                                         *)
(* Part 1: message lifecycle  - routers/messages.py                        *)
(*         create_message / update_message / delete_message and the        *)
(*         evaluation side effect of update_message.                       *)
(* Part 2: response composer  - services/llm_service.py                    *)
(*         generate_ai_response, generate_fallback_response,               *)
(*         calculate_confidence_score and llm_providers/factory.py.        *)
(***************************************************************************)
EXTENDS Integers, Sequences, FiniteSets, TLC

VARIABLES
    messages,      \* table "messages": id -> row (only the rows that exist)
    nextId,        \* next autoincrement primary key of table "messages"
    metrics,       \* table "evaluation_metrics": rows in insertion order
    resp,          \* the last HTTP call on /api/messages and its result
    everDraft,     \* history: ids of messages that have been of type ai_draft
    draftEdited,   \* history: ids whose content was updated after being ai_draft
    registry,      \* factory._PROVIDER_REGISTRY: the registered provider names
    gen,           \* the last generate_ai_response call and its result
    call,          \* the last router_agent / scoring call and its result
    EMBEDDING_AVAILABLE, \* rag_service.EMBEDDING_AVAILABLE, fixed at import
    kb,            \* table "knowledge_base": the ids of the rows that exist
    kbNextId,      \* next autoincrement primary key of "knowledge_base"
    index,         \* the ids stored in the Chroma collection "knowledge_base"
    embedding_models,    \* rag_service._embedding_models: the cached names
    chroma_client,       \* rag_service._chroma_client
    chroma_collections,  \* rag_service._chroma_collections: the cached names
    loads,         \* history: SentenceTransformer(name) calls made, per name
    pc,            \* each thread's position in get_embedding_model
    search,        \* the last knowledge base call and its outcome
    article_text,  \* "knowledge_base" rows: id -> version of title and content
    index_text,    \* index entries: id -> version of the text that was embedded
    store_collection,    \* the collection the Chroma client holds under the name
    cached_collection,   \* the collection the cached handle refers to
    conversations, \* table "conversations": id -> row (only the rows that exist)
    convNextId,    \* next autoincrement primary key of table "conversations"
    DEMO_MODE      \* demo_mode.DEMO_MODE, fixed at import

vars == <<messages, nextId, metrics, resp, everDraft, draftEdited, registry, gen,
          call, EMBEDDING_AVAILABLE, kb, kbNextId, index, embedding_models, chroma_client, chroma_collections,
          loads, pc, search, article_text, index_text, store_collection,
          cached_collection, conversations, convNextId, DEMO_MODE>>

conversationVars == <<conversations, convNextId, DEMO_MODE>>
lifecycleVars == <<messages, nextId, metrics, resp, everDraft, draftEdited,
                   conversationVars>>
composeVars == <<registry, gen>>
routerVars == <<call>>
cacheVars == <<embedding_models, chroma_client, chroma_collections, loads, pc>>
textVars == <<article_text, index_text>>
collectionVars == <<store_collection, cached_collection>>
ragVars == <<EMBEDDING_AVAILABLE, kb, kbNextId, index, search, cacheVars,
             textVars, collectionVars>>

(***************************************************************************)
(* Bounds of the model.                                                    *)
(***************************************************************************)
MaxMessages == 1     \* message rows ever created
MaxMetrics == 2      \* evaluation_metrics rows ever created

(***************************************************************************)
(* Values.  Python's None is the value None; text columns hold strings.    *)
(***************************************************************************)
None == "<None>"

\* Python truthiness of an Optional[str]: None and "" are falsy.
Truthy(s) == s # None /\ s # ""

MessageType == {"customer", "ai_draft", "agent_edited", "final", "agent_only"}

Contents == {"a", "b"}              \* sample message texts
Originals == {"a", "b"}             \* sample original_ai_content texts

ConversationIds == {1}              \* the conversations that exist
RequestedConversationIds == {1, 2}  \* conversation_id values a request may carry

\* MessageCreate: the body of POST /api/messages.
MessageCreate ==
    [conversation_id : RequestedConversationIds,
     content : Contents,
     message_type : MessageType,
     original_ai_content : Originals \cup {None}]

\* MessageUpdate: the body of PATCH /api/messages/{id}; every field optional.
MessageUpdate ==
    [content : Contents \cup {None},
     message_type : MessageType \cup {None},
     original_ai_content : Originals \cup {None}]

\* The columns confidence_score, intent and agent_type are copied from the
\* request when given and read by no condition of these handlers; they are
\* left out of the rows.  A request that sets only those columns is the
\* request NoUpdate, which sets none of the modelled ones.
NoUpdate ==
    [content |-> None, message_type |-> None, original_ai_content |-> None]

\* Outcome of the evaluation block of update_message.
EvalOutcomes == {"ok", "raised"}

(***************************************************************************)
(* create_message                                                          *)
(***************************************************************************)
\* The Message row built from the request.
NewMessage(c) ==
    [conversation_id |-> c.conversation_id,
     content |-> c.content,
     message_type |-> c.message_type,
     original_ai_content |-> c.original_ai_content]

\* The body of a response that carries no message.
NoBody == [detail |-> "none"]

\* op, id: the call; status, body: what the caller gets back; eval: what the
\* evaluation block of update_message did ("none" when it did not run).
Response(op, id, status, eval, body) ==
    [op |-> op, id |-> id, status |-> status, eval |-> eval, body |-> body]

create_message(c) ==
    /\ nextId <= MaxMessages
    /\ IF c.conversation_id \notin ConversationIds
       THEN /\ resp' = Response("create", 0, 404, "none", NoBody)
            /\ UNCHANGED <<messages, nextId>>
       ELSE /\ messages' = [i \in DOMAIN messages \cup {nextId} |->
                               IF i = nextId THEN NewMessage(c) ELSE messages[i]]
            /\ nextId' = nextId + 1
            /\ resp' = Response("create", nextId, 200, "none", NewMessage(c))
    /\ UNCHANGED <<metrics, composeVars, routerVars, ragVars,
                   conversationVars>>

(***************************************************************************)
(* update_message                                                          *)
(***************************************************************************)
\* The row after the "update fields if provided" block.
ApplyUpdate(m, u) ==
    [conversation_id |-> m.conversation_id,
     content |-> IF u.content # None THEN u.content ELSE m.content,
     message_type |-> IF u.message_type # None THEN u.message_type
                      ELSE m.message_type,
     original_ai_content |-> IF u.original_ai_content # None
                             THEN u.original_ai_content
                             ELSE m.original_ai_content]

\* The local variable original_ai_content of update_message.
OriginalForEval(m, u) ==
    IF u.original_ai_content # None THEN u.original_ai_content
    ELSE IF Truthy(m.original_ai_content) THEN m.original_ai_content
    ELSE None

\* is_edit, conjoined with the guard of the evaluation block.
IsEdit(m, u) ==
    LET after == ApplyUpdate(m, u)
        final_message_type == IF u.message_type # None THEN u.message_type
                              ELSE after.message_type
    IN  /\ Truthy(OriginalForEval(m, u))
        /\ final_message_type = "agent_edited"
        /\ Truthy(after.content)

\* Mutant: the exception of the evaluation block reaches the caller.
UpdateMessageStatus_Propagates(found, isEdit, eval) ==
    IF ~found THEN 404
    ELSE IF isEdit /\ eval = "raised" THEN 500 ELSE 200

\* HTTP status of update_message: 404 for an unknown id; an exception of the
\* evaluation block is caught and printed, the handler returns the message.
UpdateMessageStatus(found, isEdit, eval) ==
    IF ~found THEN 404 ELSE 200

\* evaluate_ai_response + save_evaluation_metrics: one row linked to the
\* message and its conversation.
EvaluationRow(id, m) ==
    [message_id |-> id, conversation_id |-> m.conversation_id]

update_message(id, u, eval) ==
    IF id \notin DOMAIN messages
    THEN /\ resp' = Response("update", id, UpdateMessageStatus(FALSE, FALSE, "none"),
                             "none", NoBody)
         /\ UNCHANGED <<messages, nextId, metrics, composeVars, routerVars, ragVars,
                   conversationVars>>
    ELSE LET m == messages[id]
             after == ApplyUpdate(m, u)
             isEdit == IsEdit(m, u)
         IN  /\ (isEdit /\ eval = "ok") => Len(metrics) < MaxMetrics
             /\ messages' = [messages EXCEPT ![id] = after]
             /\ metrics' = IF isEdit /\ eval = "ok"
                           THEN Append(metrics, EvaluationRow(id, after))
                           ELSE metrics
             /\ resp' = LET status == UpdateMessageStatus(TRUE, isEdit, eval)
                        IN  Response("update", id, status,
                                     IF isEdit THEN eval ELSE "none",
                                     IF status = 200 THEN after ELSE NoBody)
             /\ UNCHANGED <<nextId, composeVars, routerVars, ragVars,
                   conversationVars>>

\* The outcomes the evaluation block can have for this call: it runs only
\* when the update is an edit.
EvalOutcomesFor(id, u) ==
    IF id \in DOMAIN messages /\ IsEdit(messages[id], u)
    THEN EvalOutcomes ELSE {"none"}

(***************************************************************************)
(* delete_message                                                          *)
(***************************************************************************)
\* Mutant: the safety check on customer messages is missing.
DeleteAllowed_NoCheck(m) == TRUE

\* "Safety check: prevent deletion of customer messages".
DeleteAllowed(m) == m.message_type # "customer"

delete_message(id) ==
    /\ IF id \notin DOMAIN messages
       THEN /\ resp' = Response("delete", id, 404, "none", NoBody)
            /\ UNCHANGED messages
       ELSE IF ~DeleteAllowed(messages[id])
       THEN /\ resp' = Response("delete", id, 403, "none", NoBody)
            /\ UNCHANGED messages
       ELSE /\ messages' = [i \in DOMAIN messages \ {id} |-> messages[i]]
            /\ resp' = Response("delete", id, 200, "none", NoBody)
    /\ UNCHANGED <<nextId, metrics, composeVars, routerVars, ragVars,
                   conversationVars>>

(***************************************************************************)
(* Specification of the message lifecycle.                                 *)
(***************************************************************************)
MessageIds == 1..MaxMessages

InitLifecycle ==
    /\ messages = <<>>
    /\ nextId = 1
    /\ metrics = <<>>
    /\ resp = Response("none", 0, 0, "none", NoBody)
    /\ everDraft = {}
    /\ draftEdited = {}
    /\ conversations = <<>>
    /\ convNextId = 1

InitCompose ==
    /\ registry = {}
    /\ gen = [op |-> "none"]

\* The threads that may run get_embedding_model at the same time.
Threads == {1, 2}

\* The embedding model names a caller may pass (None stands for "use the
\* default"), and rag_service.DEFAULT_EMBEDDING_MODEL.
DEFAULT_EMBEDDING_MODEL == "all-MiniLM-L6-v2"
ModelNames == {DEFAULT_EMBEDDING_MODEL, "custom-model"}

Idle == [at |-> "idle"]

InitRouter == call = [op |-> "none"]

\* Module import of rag_service: empty caches, no client; the knowledge base
\* and the index start empty.
InitRagState ==
    /\ kb = {}
    /\ kbNextId = 1
    /\ index = {}
    /\ embedding_models = {}
    /\ chroma_client = None
    /\ chroma_collections = {}
    /\ loads = [n \in ModelNames |-> 0]
    /\ pc = [t \in Threads |-> Idle]
    /\ search = [op |-> "none"]
    /\ article_text = [id \in {} |-> 0]
    /\ index_text = [id \in {} |-> 0]
    /\ store_collection = 0
    /\ cached_collection = 0

\* chromadb and sentence_transformers are installed: the import at
\* rag_service.py:13-17 succeeds.
InitRag == EMBEDDING_AVAILABLE = TRUE /\ InitRagState

\* DEMO_MODE is false unless the environment sets it (demo_mode.py:18).
Init == InitLifecycle /\ InitCompose /\ InitRouter /\ InitRag /\ DEMO_MODE = FALSE

\* Any build: the import of chromadb / sentence_transformers may also fail.
InitAnyBuild ==
    /\ InitLifecycle /\ InitCompose /\ InitRouter
    /\ EMBEDDING_AVAILABLE \in BOOLEAN
    /\ InitRagState
    /\ DEMO_MODE = FALSE

historyVars == <<everDraft, draftEdited>>

CreateMessage == \E c \in MessageCreate : create_message(c) /\ UNCHANGED historyVars
UpdateMessage ==
    \E id \in MessageIds, u \in MessageUpdate :
        \E eval \in EvalOutcomesFor(id, u) :
            update_message(id, u, eval) /\ UNCHANGED historyVars
DeleteMessage == \E id \in MessageIds : delete_message(id) /\ UNCHANGED historyVars

Next == CreateMessage \/ UpdateMessage \/ DeleteMessage

Spec == Init /\ [][Next]_vars

(***************************************************************************)
(* The same operations with the history of each message recorded:          *)
(* everDraft   - the message has been of type ai_draft;                    *)
(* draftEdited - its content was updated after it had been ai_draft.       *)
(***************************************************************************)
CreateMessageH ==
    \E c \in MessageCreate :
        /\ create_message(c)
        /\ everDraft' = IF c.conversation_id \in ConversationIds
                           /\ c.message_type = "ai_draft"
                        THEN everDraft \cup {nextId} ELSE everDraft
        /\ UNCHANGED draftEdited

UpdateMessageH ==
    \E id \in MessageIds, u \in MessageUpdate :
        \E eval \in EvalOutcomesFor(id, u) :
            /\ update_message(id, u, eval)
            /\ everDraft' = IF id \in DOMAIN messages
                               /\ ApplyUpdate(messages[id], u).message_type = "ai_draft"
                            THEN everDraft \cup {id} ELSE everDraft
            /\ draftEdited' = IF id \in everDraft /\ u.content # None
                              THEN draftEdited \cup {id} ELSE draftEdited

DeleteMessageH == \E id \in MessageIds : delete_message(id) /\ UNCHANGED historyVars

NextHistory == CreateMessageH \/ UpdateMessageH \/ DeleteMessageH

SpecHistory == Init /\ [][NextHistory]_vars

(***************************************************************************)
(* Claims about the message lifecycle.                                     *)
(***************************************************************************)
\* This step is a call op on the existing message id.
Called(op, id) == resp'.op = op /\ resp'.id = id

\* C1: update_message on a message of type customer is rejected (the caller
\* gets an error status) and leaves the message as it was.
C1_CustomerUpdateRejected ==
    [][\A id \in DOMAIN messages :
          (Called("update", id) /\ messages[id].message_type = "customer")
          => /\ resp'.status # 200
             /\ id \in DOMAIN messages'
             /\ messages'[id] = messages[id]]_vars

\* C2: delete_message on a message of type customer answers 403 and the
\* message is still stored; no step removes a message that is of type customer.
C2_CustomerNeverDeleted ==
    [][\A id \in DOMAIN messages :
          messages[id].message_type = "customer"
          => /\ id \in DOMAIN messages'
             /\ Called("delete", id) => resp'.status = 403]_vars

\* C2 witness: a delete of a customer message was refused and the message is
\* still there.
C2_Witness ==
    /\ resp.op = "delete"
    /\ resp.status = 403
    /\ resp.id \in DOMAIN messages
    /\ messages[resp.id].message_type = "customer"

\* C3: once original_ai_content is set, no update_message call changes it.
C3_OriginalNeverOverwritten ==
    [][\A id \in DOMAIN messages :
          (Called("update", id) /\ messages[id].original_ai_content # None)
          => /\ id \in DOMAIN messages'
             /\ messages'[id].original_ai_content
                    = messages[id].original_ai_content]_vars

\* C4: the update that turns an ai_draft into agent_edited with new content
\* stores the draft's previous content in original_ai_content.
C4_DraftContentPreserved ==
    [][\A id \in DOMAIN messages :
          (/\ Called("update", id)
           /\ resp'.status = 200
           /\ messages[id].message_type = "ai_draft"
           /\ messages'[id].message_type = "agent_edited"
           /\ messages'[id].content # messages[id].content)
          => messages'[id].original_ai_content = messages[id].content]_vars

\* C5: original_ai_content is non-null exactly for the messages that were
\* ai_draft and were edited afterwards.
C5_OriginalIffDraftEdited ==
    \A id \in DOMAIN messages :
        (messages[id].original_ai_content # None) <=> (id \in draftEdited)

\* C6: the update that turns an ai_draft into agent_edited with new content
\* adds exactly one evaluation_metrics row, linked to the message and its
\* conversation (the case of the evaluation itself failing is C8's and is
\* left out here).
C6_EditCreatesOneMetric ==
    [][\A id \in DOMAIN messages :
          (/\ Called("update", id)
           /\ resp'.status = 200
           /\ resp'.eval # "raised"
           /\ messages[id].message_type = "ai_draft"
           /\ messages'[id].message_type = "agent_edited"
           /\ messages'[id].content # messages[id].content)
          => /\ Len(metrics') = Len(metrics) + 1
             /\ metrics'[Len(metrics')] = EvaluationRow(id, messages'[id])]_vars

\* C7: only the edit of a draft adds an evaluation_metrics row; an update of
\* a message that is already agent_edited which leaves its content, type and
\* original_ai_content as they are (it changes intent, confidence_score or
\* agent_type at most), or an update
\* that makes a message final, is a pure field update and adds no row.
C7_OnlyEditsCreateMetrics ==
    [][\A id \in DOMAIN messages :
          (/\ Called("update", id)
           /\ \/ /\ messages[id].message_type = "agent_edited"
                 /\ messages'[id].message_type = "agent_edited"
                 /\ messages'[id].content = messages[id].content
                 /\ messages'[id].original_ai_content
                        = messages[id].original_ai_content
              \/ messages'[id].message_type = "final")
          => metrics' = metrics]_vars

\* C8: when the evaluation block raises, update_message still answers 200
\* with the updated message, the updated row (now agent_edited) is the one
\* stored, and no evaluation_metrics row is written.
C8_EvalFailureKeepsEdit ==
    [][\A id \in DOMAIN messages :
          (Called("update", id) /\ resp'.eval = "raised")
          => /\ resp'.status = 200
             /\ id \in DOMAIN messages'
             /\ resp'.body = messages'[id]
             /\ messages'[id].message_type = "agent_edited"
             /\ metrics' = metrics]_vars

\* C8 witness: an edit whose evaluation raised was answered 200 and is stored.
C8_Witness ==
    /\ resp.op = "update"
    /\ resp.eval = "raised"
    /\ resp.status = 200
    /\ resp.id \in DOMAIN messages
    /\ messages[resp.id] = resp.body
    /\ messages[resp.id].message_type = "agent_edited"

(***************************************************************************)
(* Part 2: the response composer (services/llm_service.py).                *)
(* Scores and thresholds are in hundredths: 0.65 is 65.                    *)
(***************************************************************************)
\* Customer messages are sequences of characters, so that str.lower() and
\* the substring test "word in user_message_lower" are computed.
UserMessages ==
    {<<"R", "e", "f", "u", "n", "d">>,
     <<"L", "o", "g", "i", "n">>,
     <<"H", "i">>,
     <<"o", "k">>}

\* The upper-case letters and their lower-case forms.
LowerTable ==
    ("A" :> "a") @@ ("B" :> "b") @@ ("C" :> "c") @@ ("D" :> "d") @@ ("E"
    :> "e") @@ ("F" :> "f") @@ ("G" :> "g") @@ ("H" :> "h") @@ ("I" :>
    "i") @@ ("J" :> "j") @@ ("K" :> "k") @@ ("L" :> "l") @@ ("M" :> "m")
    @@ ("N" :> "n") @@ ("O" :> "o") @@ ("P" :> "p") @@ ("Q" :> "q") @@
    ("R" :> "r") @@ ("S" :> "s") @@ ("T" :> "t") @@ ("U" :> "u") @@ ("V"
    :> "v") @@ ("W" :> "w") @@ ("X" :> "x") @@ ("Y" :> "y") @@ ("Z" :>
    "z")

\* str.lower() on one character.
LowerChar(c) == IF c \in DOMAIN LowerTable THEN LowerTable[c] ELSE c

Lower(s) == [i \in 1..Len(s) |-> LowerChar(s[i])]

\* Python's "w in s" on strings.
Contains(s, w) ==
    \E i \in 1..(Len(s) - Len(w) + 1) : SubSeq(s, i, i + Len(w) - 1) = w

AnyWordIn(words, s) == \E w \in words : Contains(s, w)

ReturnWords == {<<"r", "e", "t", "u", "r", "n">>, <<"r", "e", "f", "u", "n", "d">>, <<"e", "x", "c", "h", "a", "n", "g", "e">>}
ShippingWords == {<<"s", "h", "i", "p", "p", "i", "n", "g">>, <<"d", "e", "l", "i", "v", "e", "r", "y">>, <<"t", "r", "a", "c", "k", "i", "n", "g">>}
AccountWords == {<<"a", "c", "c", "o", "u", "n", "t">>, <<"l", "o", "g", "i", "n">>, <<"p", "a", "s", "s", "w", "o", "r", "d">>, <<"r", "e", "s", "e", "t">>}
ProductWords == {<<"p", "r", "o", "d", "u", "c", "t">>, <<"i", "t", "e", "m">>, <<"s", "p", "e", "c", "s">>, <<"d", "e", "t", "a", "i", "l", "s">>, <<"p", "r", "i", "c", "e">>}
OrderWords == {<<"c", "a", "n", "c", "e", "l">>, <<"o", "r", "d", "e", "r">>}
GreetingWords == {<<"h", "i">>, <<"h", "e", "l", "l", "o">>, <<"h", "e", "y">>}

\* content[:n] of a str.  The sample article texts are shorter than the
\* previews, which a slice leaves as they are.
Slice(s, n) == IF Len(s) <= n THEN s ELSE "<" \o s \o ">[:" \o ToString(n) \o "]"

\* Sample retrieval results, as search_knowledge_base returns them: best first.
ArticleReturn ==
    [id |-> 1, title |-> "Return Policy", content |-> "Returns within 30 days.",
     category |-> "Returns", match_score |-> 80, similarity |-> 80]
ArticleShipping ==
    [id |-> 2, title |-> "Shipping", content |-> "Ships in 3-5 days.",
     category |-> "Shipping", match_score |-> 25, similarity |-> 25]

ArticleLists == {<<>>, <<ArticleReturn, ArticleShipping>>, <<ArticleShipping>>}

\* generate_fallback_response with the article used from a score of 0.3 itself.
generate_fallback_response_Inclusive(user_message, matched_articles) ==
    LET user_message_lower == Lower(user_message) IN
    IF matched_articles # <<>> /\ matched_articles[1].match_score >= 30
    THEN "Based on our " \o matched_articles[1].category \o " policy:\n\n"
         \o Slice(matched_articles[1].content, 200)
         \o "...\n\nWould you like more specific information about this?"
    ELSE IF AnyWordIn(ReturnWords, user_message_lower)
    THEN "I'd be happy to help with your return. Our return policy allows returns within 30 days of purchase. Could you provide your order number so I can check the specifics?"
    ELSE IF AnyWordIn(ShippingWords, user_message_lower)
    THEN "I can help you with shipping information. Could you please provide your order number? Standard shipping typically takes 3-5 business days."
    ELSE IF AnyWordIn(AccountWords, user_message_lower)
    THEN "For account issues, I can help you reset your password or update your account information. What specific issue are you experiencing?"
    ELSE IF AnyWordIn(ProductWords, user_message_lower)
    THEN "I'd be happy to provide product information. Which product are you interested in learning more about?"
    ELSE IF AnyWordIn(OrderWords, user_message_lower)
    THEN "I can help you with your order. If you'd like to cancel or modify an order, please provide your order number and I'll check if it's possible."
    ELSE IF AnyWordIn(GreetingWords, user_message_lower)
    THEN "Hello! I'm here to help you with any questions about your order, returns, shipping, or our products. How can I assist you today?"
    ELSE "I'm here to help! I can assist with questions about orders, returns, shipping, account issues, and product information. Could you provide more details about what you need help with?"

\* generate_fallback_response
generate_fallback_response(user_message, matched_articles) ==
    LET user_message_lower == Lower(user_message) IN
    IF matched_articles # <<>> /\ matched_articles[1].match_score > 30
    THEN "Based on our " \o matched_articles[1].category \o " policy:\n\n"
         \o Slice(matched_articles[1].content, 200)
         \o "...\n\nWould you like more specific information about this?"
    ELSE IF AnyWordIn(ReturnWords, user_message_lower)
    THEN "I'd be happy to help with your return. Our return policy allows returns within 30 days of purchase. Could you provide your order number so I can check the specifics?"
    ELSE IF AnyWordIn(ShippingWords, user_message_lower)
    THEN "I can help you with shipping information. Could you please provide your order number? Standard shipping typically takes 3-5 business days."
    ELSE IF AnyWordIn(AccountWords, user_message_lower)
    THEN "For account issues, I can help you reset your password or update your account information. What specific issue are you experiencing?"
    ELSE IF AnyWordIn(ProductWords, user_message_lower)
    THEN "I'd be happy to provide product information. Which product are you interested in learning more about?"
    ELSE IF AnyWordIn(OrderWords, user_message_lower)
    THEN "I can help you with your order. If you'd like to cancel or modify an order, please provide your order number and I'll check if it's possible."
    ELSE IF AnyWordIn(GreetingWords, user_message_lower)
    THEN "Hello! I'm here to help you with any questions about your order, returns, shipping, or our products. How can I assist you today?"
    ELSE "I'm here to help! I can assist with questions about orders, returns, shipping, account issues, and product information. Could you provide more details about what you need help with?"

\* Mutant: the top tier starts at a score of 0.7 itself.
calculate_confidence_score_Inclusive(matched_articles) ==
    IF matched_articles = <<>> THEN 30
    ELSE LET first == matched_articles[1]
             best_score == IF first.similarity # 0 THEN first.similarity
                           ELSE first.match_score
         IN  IF best_score >= 70 THEN 85
             ELSE IF best_score > 50 THEN 65
             ELSE IF best_score > 30 THEN 40
             ELSE 30

\* calculate_confidence_score
calculate_confidence_score(matched_articles) ==
    IF matched_articles = <<>> THEN 30
    ELSE LET first == matched_articles[1]
             best_score == IF first.similarity # 0 THEN first.similarity
                           ELSE first.match_score
         IN  IF best_score > 70 THEN 85
             ELSE IF best_score > 50 THEN 65
             ELSE IF best_score > 30 THEN 40
             ELSE 30

(***************************************************************************)
(* llm_providers/factory.py                                                *)
(***************************************************************************)
BuiltinProviders == {"huggingface_inference", "openai", "anthropic"}

\* The provider names a configuration may carry: a registered one, one in
\* another case, and TenantConfiguration's column default, which no provider
\* class is registered under.
ProviderNames == {"huggingface_inference", "OpenAI", "ollama"}

\* str.lower() on the sample provider names.
LowerName(n) == IF n = "OpenAI" THEN "openai" ELSE n

\* _load_providers: fills the registry only when it is empty.
LoadProviders(reg) == IF reg = {} THEN BuiltinProviders ELSE reg

\* How the provider of a call behaves: its constructor raises; is_available()
\* is False; generate_response raises; generate_response returns.
Behaviours == {"ctor_raises", "not_available", "raises", "returns"}

\* What generate_response can return: text, the empty string (the stripped
\* content of an empty completion) or None (a dict without a known key).
ProviderOutputs == {"Sure, here is how.", "", None}

\* get_provider: the provider instance (named by its registry key), or None.
get_provider(reg, provider_name, behaviour) ==
    IF LowerName(provider_name) \notin LoadProviders(reg) THEN None
    ELSE IF behaviour = "ctor_raises" THEN None
    ELSE IF behaviour = "not_available" THEN None
    ELSE LowerName(provider_name)

(***************************************************************************)
(* generate_ai_response                                                    *)
(***************************************************************************)
\* An Optional[float]: None, or a value.
NoFloat == [isNone |-> TRUE, value |-> 0]
Float(v) == [isNone |-> FALSE, value |-> v]

\* The auto-send thresholds a call may find: none (no tenant configuration, or
\* a NULL column), 0.0 and 0.9.
TenantThresholds == {NoFloat, Float(0), Float(90)}

\* get_default_llm_config()["auto_send_threshold"]
DefaultAutoSendThreshold == 65

\* "tenant_config.auto_send_threshold or default_config[...]"
AutoSendThreshold(tenant_threshold) ==
    IF ~tenant_threshold.isNone /\ tenant_threshold.value # 0
    THEN tenant_threshold.value
    ELSE DefaultAutoSendThreshold

\* Mutant: the except branch does not set the reasoning tag.
ComposeReply_StaleReasoning(llm_provider, provider, behaviour, output, user_message, matched_articles) ==
    IF provider # None
    THEN IF behaviour = "raises"
         THEN [response |-> generate_fallback_response(user_message, matched_articles),
               reasoning |-> "Generated using " \o llm_provider \o " LLM"]
         ELSE [response |-> output,
               reasoning |-> "Generated using " \o llm_provider \o " LLM"]
    ELSE [response |-> generate_fallback_response(user_message, matched_articles),
          reasoning |-> "Fallback (provider " \o llm_provider \o " unavailable)"]

\* The "Generate response" block: response and reasoning.
ComposeReply(llm_provider, provider, behaviour, output, user_message, matched_articles) ==
    IF provider # None
    THEN IF behaviour = "raises"
         THEN [response |-> generate_fallback_response(user_message, matched_articles),
               reasoning |-> "Fallback (provider " \o llm_provider \o " failed)"]
         ELSE [response |-> output,
               reasoning |-> "Generated using " \o llm_provider \o " LLM"]
    ELSE [response |-> generate_fallback_response(user_message, matched_articles),
          reasoning |-> "Fallback (provider " \o llm_provider \o " unavailable)"]

generate_ai_response(user_message, matched_articles, llm_provider, tenant_threshold, behaviour, output) ==
    LET auto_send_threshold == AutoSendThreshold(tenant_threshold)
        confidence == calculate_confidence_score(matched_articles)
        provider == get_provider(registry, llm_provider, behaviour)
        reply == ComposeReply(llm_provider, provider, behaviour, output,
                              user_message, matched_articles)
    IN  /\ registry' = LoadProviders(registry)
        /\ gen' = [op |-> "generate",
                   user_message |-> user_message,
                   matched_articles |-> matched_articles,
                   tenant_threshold |-> tenant_threshold,
                   provider |-> provider,
                   behaviour |-> behaviour,
                   output |-> output,
                   response |-> reply.response,
                   confidence_score |-> confidence,
                   reasoning |-> reply.reasoning,
                   auto_send_threshold |-> auto_send_threshold,
                   should_auto_send |-> (confidence >= auto_send_threshold),
                   llm_provider |-> llm_provider]
        /\ UNCHANGED <<lifecycleVars, routerVars, ragVars>>

GenerateAIResponse ==
    \E user_message \in UserMessages, matched_articles \in ArticleLists,
       llm_provider \in ProviderNames, tenant_threshold \in TenantThresholds,
       behaviour \in Behaviours :
        \E output \in (IF behaviour = "returns" THEN ProviderOutputs ELSE {None}) :
            generate_ai_response(user_message, matched_articles, llm_provider,
                                 tenant_threshold, behaviour, output)

NextCompose == GenerateAIResponse

SpecCompose == Init /\ [][NextCompose]_vars

(***************************************************************************)
(* Claims about the response composer.                                     *)
(***************************************************************************)
\* C9: generate_ai_response always returns a non-empty string as response,
\* whatever the provider does (also when it returns "" or None).
C9_ResponseNonEmpty ==
    gen.op = "generate" => (gen.response # None /\ gen.response # "")

\* C10: the reasoning tag names the path that produced the response:
\* "Generated using <p> LLM" exactly when a provider was obtained and its
\* generate_response returned (the response is then its output),
\* "Fallback (provider <p> failed)" exactly when a provider was obtained and
\* generate_response raised, "Fallback (provider <p> unavailable)" exactly
\* when get_provider gave no provider; in both fallback cases the response is
\* generate_fallback_response(user_message, matched_articles).
C10_ReasoningDisclosesPath ==
    gen.op = "generate" =>
        LET p == gen.llm_provider
            generated == gen.reasoning = "Generated using " \o p \o " LLM"
            failed == gen.reasoning = "Fallback (provider " \o p \o " failed)"
            unavailable ==
                gen.reasoning = "Fallback (provider " \o p \o " unavailable)"
            fallback ==
                generate_fallback_response(gen.user_message, gen.matched_articles)
        IN  /\ generated <=> (gen.provider # None /\ gen.behaviour = "returns")
            /\ generated => gen.response = gen.output
            /\ failed <=> (gen.provider # None /\ gen.behaviour = "raises")
            /\ unavailable <=> (gen.provider = None)
            /\ (failed \/ unavailable) => gen.response = fallback

\* C10 witness: a provider was obtained, its generate_response raised, and
\* the caller got the rule-based reply tagged as a failure fallback.
C10_Witness ==
    /\ gen.op = "generate"
    /\ gen.provider # None
    /\ gen.behaviour = "raises"
    /\ gen.reasoning = "Fallback (provider " \o gen.llm_provider \o " failed)"
    /\ gen.response =
           generate_fallback_response(gen.user_message, gen.matched_articles)

(***************************************************************************)
(* generate_ai_response as the two steps of its await: the handler reaches  *)
(* "await provider.generate_response(...)" (llm_service.py:141) and is      *)
(* resumed only when that call returns or raises.  No provider passes a     *)
(* timeout to its client (ollama.chat, InferenceClient.chat_completion),    *)
(* and neither generate_ai_response nor its callers wrap the await in one,  *)
(* so nothing but the provider's answer ends the wait.                      *)
(***************************************************************************)
\* The handler runs up to the await: without a provider it returns the
\* fallback reply at once, with one it is suspended in generate_response.
BeginGenerate ==
    /\ gen.op # "awaiting"
    /\ \E user_message \in UserMessages, matched_articles \in ArticleLists,
          llm_provider \in ProviderNames, tenant_threshold \in TenantThresholds,
          availability \in {"ctor_raises", "not_available", "available"} :
           IF availability # "available"
              \/ get_provider(registry, llm_provider, "returns") = None
           THEN generate_ai_response(user_message, matched_articles, llm_provider,
                                     tenant_threshold, "not_available", None)
           ELSE /\ registry' = LoadProviders(registry)
                /\ gen' = [op |-> "awaiting",
                           user_message |-> user_message,
                           matched_articles |-> matched_articles,
                           tenant_threshold |-> tenant_threshold,
                           llm_provider |-> llm_provider]
                /\ UNCHANGED <<lifecycleVars, routerVars, ragVars>>

\* The external service answers: generate_response returns or raises, and the
\* handler runs to its return statement.
ProviderCompletes ==
    /\ gen.op = "awaiting"
    /\ \E behaviour \in {"raises", "returns"} :
        \E output \in (IF behaviour = "returns" THEN ProviderOutputs ELSE {None}) :
            generate_ai_response(gen.user_message, gen.matched_articles,
                                 gen.llm_provider, gen.tenant_threshold,
                                 behaviour, output)

NextAwait == BeginGenerate \/ ProviderCompletes

\* The event loop resumes the handler whenever it can run; the external
\* service is under no obligation to answer.
SpecAwait == Init /\ [][NextAwait]_vars /\ WF_vars(BeginGenerate)

\* C11: a call suspended in the provider's generate_response eventually
\* returns to its caller (by a bounded timeout that is treated as a provider
\* failure and answered with the fallback reply), also when the external
\* service never responds.
C11_GenerationReturns == (gen.op = "awaiting") ~> (gen.op = "generate")

\* C12: should_auto_send is (confidence_score >= auto_send_threshold) for the
\* threshold that was configured, whatever its value (0.0 included); the
\* default 0.65 is the threshold only when none is configured.
C12_AutoSendUsesConfiguredThreshold ==
    gen.op = "generate" =>
        LET configured == IF gen.tenant_threshold.isNone
                          THEN DefaultAutoSendThreshold
                          ELSE gen.tenant_threshold.value
        IN  /\ gen.auto_send_threshold = configured
            /\ gen.should_auto_send = (gen.confidence_score >= configured)

(***************************************************************************)
(* services/router_agent.py.  Confidences are in thousandths (0.4 is 400). *)
(***************************************************************************)
INTENT_CATEGORIES ==
    {"faq", "order_inquiry", "technical_support", "complaint", "general"}

\* should_escalate: escalation_keywords
escalation_keywords ==
    {<<"h", "u", "m", "a", "n">>,
     <<"a", "g", "e", "n", "t">>,
     <<"r", "e", "p", "r", "e", "s", "e", "n", "t", "a", "t", "i", "v", "e">>,
     <<"s", "p", "e", "a", "k", " ", "t", "o", " ", "s", "o", "m", "e", "o", "n", "e">>,
     <<"e", "s", "c", "a", "l", "a", "t", "e">>}

\* Mutant: the explicit-request test is left out.
should_escalate_NoKeywords(intent, confidence, user_message) ==
    IF intent = "complaint" THEN TRUE
    ELSE IF confidence < 400 THEN TRUE
    ELSE FALSE

\* Mutant: a confidence of exactly 0.4 counts as low.
should_escalate_Inclusive(intent, confidence, user_message) ==
    IF AnyWordIn(escalation_keywords, Lower(user_message)) THEN TRUE
    ELSE IF intent = "complaint" THEN TRUE
    ELSE IF confidence <= 400 THEN TRUE
    ELSE FALSE

\* should_escalate
should_escalate(intent, confidence, user_message) ==
    IF AnyWordIn(escalation_keywords, Lower(user_message)) THEN TRUE
    ELSE IF intent = "complaint" THEN TRUE
    ELSE IF confidence < 400 THEN TRUE
    ELSE FALSE

\* The texts should_escalate is applied to: one per escalation phrase (in
\* upper, mixed and lower case), one holding a phrase inside a longer word,
\* and two without any phrase.
EscalationTexts ==
    {<<"H", "U", "M", "A", "N", " ", "p", "l", "s">>,
     <<"a", "n", " ", "A", "g", "e", "n", "t">>,
     <<"R", "e", "p", "r", "e", "s", "e", "n", "t", "a", "t", "i", "v", "e">>,
     <<"s", "p", "e", "a", "k", " ", "t", "o", " ", "s", "o", "m", "e", "o", "n", "e">>,
     <<"E", "s", "c", "a", "l", "a", "t", "e">>,
     <<"i", "n", "h", "u", "m", "a", "n", "e">>,
     <<"r", "e", "f", "u", "n", "d">>,
     <<"o", "k", " ", "t", "h", "a", "n", "k", "s">>}

\* The confidences should_escalate is applied to: 0.0, 0.399, 0.4 and 1.0.
EscalationConfidences == {0, 399, 400, 1000}

ShouldEscalate ==
    /\ \E intent \in INTENT_CATEGORIES, confidence \in EscalationConfidences,
          user_message \in EscalationTexts :
           call' = [op |-> "should_escalate",
                    intent |-> intent,
                    confidence |-> confidence,
                    user_message |-> user_message,
                    result |-> should_escalate(intent, confidence, user_message)]
    /\ UNCHANGED <<lifecycleVars, composeVars, ragVars>>

NextEscalate == ShouldEscalate

SpecEscalate == Init /\ [][NextEscalate]_vars

\* The text of the last should_escalate call holds an escalation phrase as a
\* substring, letter case ignored.
HasEscalationPhrase ==
    \E keyword \in escalation_keywords, i \in 1..Len(call.user_message) :
        /\ i + Len(keyword) - 1 <= Len(call.user_message)
        /\ \A j \in 1..Len(keyword) :
               LowerChar(call.user_message[i + j - 1]) = keyword[j]

\* C13: should_escalate is true for every intent and every confidence when
\* the text contains, case-insensitively as a substring, one of the phrases
\* 'human', 'agent', 'representative', 'speak to someone', 'escalate'.
C13_KeywordDominates ==
    (call.op = "should_escalate" /\ HasEscalationPhrase) => call.result = TRUE

\* C13 witness: a non-complaint at confidence 1.0 whose text asks for a
\* HUMAN in upper case is escalated.
C13_Witness ==
    /\ call.op = "should_escalate"
    /\ HasEscalationPhrase
    /\ call.user_message = <<"H", "U", "M", "A", "N", " ", "p", "l", "s">>
    /\ call.intent = "faq"
    /\ call.confidence = 1000
    /\ call.result = TRUE

\* C14: for a text without escalation phrase, should_escalate is true iff
\* the intent is complaint or the confidence is below 0.4; a complaint at
\* confidence 1.0 escalates, a non-complaint at exactly 0.4 does not.
C14_ComplaintOrLowConfidence ==
    (call.op = "should_escalate" /\ ~HasEscalationPhrase) =>
        (call.result = TRUE <=> (call.intent = "complaint" \/ call.confidence < 400))

\* C14 witness: a non-complaint at exactly 0.4, without escalation phrase, is
\* not escalated.
C14_Witness ==
    /\ call.op = "should_escalate"
    /\ ~HasEscalationPhrase
    /\ call.intent = "order_inquiry"
    /\ call.confidence = 400
    /\ call.result = FALSE

(***************************************************************************)
(* calculate_confidence_score applied to retrieval results.  Scores and     *)
(* tiers are in hundredths.                                                 *)
(***************************************************************************)
\* The scores a retrieved article may carry: the tier boundaries, their
\* neighbours, 0, 1.0 and a negative similarity (a cosine distance above 1).
RetrievedScores == {-20, 0, 30, 31, 50, 51, 70, 71, 100}

\* top_k of search_knowledge_base (llm_service.py:38)
TopK == 3

\* A retrieved article as the searches build it: match_score and similarity
\* hold the same score.
Retrieved(id, score) ==
    [id |-> id, title |-> "Return Policy", content |-> "Returns within 30 days.",
     category |-> "Returns", match_score |-> score, similarity |-> score]

\* Retrieval results: at most TopK articles in descending order of score.
RetrievedLists ==
    {<<>>}
    \cup {<<Retrieved(1, a)>> : a \in RetrievedScores}
    \cup {<<Retrieved(1, ab[1]), Retrieved(2, ab[2])>> :
              ab \in {x \in RetrievedScores \X RetrievedScores : x[1] >= x[2]}}
    \cup {<<Retrieved(1, abc[1]), Retrieved(2, abc[2]), Retrieved(3, abc[3])>> :
              abc \in {x \in RetrievedScores \X RetrievedScores \X RetrievedScores :
                           x[1] >= x[2] /\ x[2] >= x[3]}}

CalculateConfidenceScore ==
    /\ \E matched_articles \in RetrievedLists :
           call' = [op |-> "calculate_confidence_score",
                    matched_articles |-> matched_articles,
                    result |-> calculate_confidence_score(matched_articles)]
    /\ UNCHANGED <<lifecycleVars, composeVars, ragVars>>

NextConfidence == CalculateConfidenceScore

SpecConfidence == Init /\ [][NextConfidence]_vars

\* C15: calculate_confidence_score maps the first retrieved score s to 0.85
\* if s > 0.7, 0.65 if 0.5 < s <= 0.7, 0.40 if 0.3 < s <= 0.5 and 0.30 if
\* s <= 0.3 (negative s included) or nothing was retrieved; a result list
\* with a higher first score never gets a lower tier.
C15_ConfidenceTiers ==
    call.op = "calculate_confidence_score" =>
        IF call.matched_articles = <<>> THEN call.result = 30
        ELSE LET s == call.matched_articles[1].match_score IN
             /\ s > 70 => call.result = 85
             /\ (50 < s /\ s <= 70) => call.result = 65
             /\ (30 < s /\ s <= 50) => call.result = 40
             /\ s <= 30 => call.result = 30
             /\ \A other \in RetrievedLists :
                    (other # <<>> /\ other[1].match_score >= s) =>
                        calculate_confidence_score(other) >= call.result

\* C15 witness: a first score of exactly 0.7 is in the 0.65 tier.
C15_Witness ==
    /\ call.op = "calculate_confidence_score"
    /\ call.matched_articles # <<>>
    /\ call.matched_articles[1].match_score = 70
    /\ call.result = 65

(***************************************************************************)
(* services/rag_service.py and routers/knowledge_base.py.  Scores,          *)
(* similarities and distances are in hundredths.  A text is the sequence    *)
(* of its whitespace-separated words (the result of str.split()).           *)
(***************************************************************************)
MaxArticles == 3

\* f"{article.title} {article.content} {article.tags}" of the article that
\* gets a given id.
ArticleText(id) ==
    CASE id = 1 -> <<<<"R", "e", "t", "u", "r", "n">>, <<"P", "o", "l", "i", "c", "y">>, <<"r", "e", "f", "u", "n", "d">>, <<"r", "e", "t", "u", "r", "n", "s">>>>
      [] id = 2 -> <<<<"S", "h", "i", "p", "p", "i", "n", "g">>, <<"p", "o", "l", "i", "c", "y">>, <<"d", "e", "l", "i", "v", "e", "r", "y">>>>
      [] id = 3 -> <<<<"R", "e", "f", "u", "n", "d">>, <<"a", "n", "d">>, <<"r", "e", "t", "u", "r", "n">>, <<"p", "o", "l", "i", "c", "y">>>>
      [] OTHER -> <<<<"P", "a", "s", "s", "w", "o", "r", "d">>, <<"r", "e", "s", "e", "t">>>>

\* The queries of the searches.
Queries ==
    {<<<<"R", "e", "t", "u", "r", "n">>, <<"p", "o", "l", "i", "c", "y">>, <<"r", "e", "t", "u", "r", "n">>, <<"r", "e", "f", "u", "n", "d">>>>,
     <<<<"w", "a", "r", "r", "a", "n", "t", "y">>>>}

\* set(text.lower().split())
Words(text) == {Lower(text[i]) : i \in 1..Len(text)}

\* article_words of each article, and query_words of each query.
ArticleWords == [id \in 1..MaxArticles |-> Words(ArticleText(id))]
QueryWords == [query \in Queries |-> Words(query)]

\* Cosine distance (1 - cosine similarity, 0..2) between the embeddings of a
\* query and of an article, as the collection reports it.
Distance(query, id) ==
    IF Len(query) = 1
    THEN CASE id = 1 -> 90 [] id = 2 -> 120 [] id = 3 -> 90 [] OTHER -> 95
    ELSE CASE id = 1 -> 40 [] id = 2 -> 70 [] id = 3 -> 20 [] OTHER -> 100

\* The elements of a set of ids as a sequence ordered by key[id], ties by
\* id: ascending for descending = FALSE, else descending (stable, as
\* list.sort(reverse=True) on a list in id order).
RECURSIVE SortIds(_, _, _)
SortIds(ids, key, descending) ==
    IF ids = {} THEN <<>>
    ELSE LET before(i, j) ==
                 IF key[i] # key[j]
                 THEN (IF descending THEN key[i] > key[j] ELSE key[i] < key[j])
                 ELSE i <= j
             m == CHOOSE i \in ids : \A j \in ids : before(i, j)
         IN  <<m>> \o SortIds(ids \ {m}, key, descending)

\* Mutant: the slice keeps the whole list.
Take_All(list, n) == list

\* list[:n] for n >= 0
Take(list, n) == SubSeq(list, 1, IF n < Len(list) THEN n ELSE Len(list))

\* The dict both searches append to matched_articles.
Match(id, score) == [id |-> id, match_score |-> score, similarity |-> score]

\* matched_articles.sort(key=lambda x: x["match_score"], reverse=True)
KeywordOrder(ids, score) == SortIds(ids, score, TRUE)

\* search_knowledge_base_keyword
search_knowledge_base_keyword(query, top_k) ==
    LET query_words == QueryWords[query]
        common_words == [id \in kb |-> query_words \cap ArticleWords[id]]
        match_score ==
            [id \in kb |-> (Cardinality(common_words[id]) * 100)
                               \div Cardinality(query_words)]
        matched == {id \in kb : common_words[id] # {}}
        sorted == KeywordOrder(matched, match_score)
    IN  Take([i \in 1..Len(sorted) |-> Match(sorted[i], match_score[sorted[i]])],
             top_k)

\* collection.query(query_embeddings=[...], n_results=top_k): the ids of the
\* nearest entries of the collection, nearest first.
CollectionQuery(query, top_k) ==
    Take(SortIds(index, [id \in index |-> Distance(query, id)], FALSE), top_k)

\* What the libraries do during one call: nothing fails; chromadb's
\* PersistentClient raises; get_collection and create_collection raise;
\* every SentenceTransformer constructor raises; only the constructor of a
\* non-default model raises; model.encode raises; the collection's query or
\* upsert raises.
Outcomes ==
    {"ok", "client_raises", "collection_raises", "ctor_raises",
     "custom_ctor_raises", "encode_raises", "index_raises"}

\* The embedding_model_name arguments: None (use the default) or a name.
ModelNameArgs == {None, "custom-model"}

\* The outcomes a call can meet in the current state: a library call can
\* only raise if the call is made (a cached client, collection or model is
\* not created again), and without the libraries none is made.
OutcomesFor(model_name_arg) ==
    LET model_name == IF model_name_arg = None THEN DEFAULT_EMBEDDING_MODEL
                      ELSE model_name_arg
    IN  {outcome \in Outcomes :
            \/ outcome = "ok"
            \/ /\ EMBEDDING_AVAILABLE
               /\ CASE outcome = "client_raises" -> chroma_client = None
                    [] outcome = "collection_raises" ->
                           "knowledge_base" \notin chroma_collections
                    [] outcome = "ctor_raises" -> model_name \notin embedding_models
                    [] outcome = "custom_ctor_raises" ->
                           /\ model_name # DEFAULT_EMBEDDING_MODEL
                           /\ model_name \notin embedding_models
                    [] OTHER -> TRUE}

\* get_chroma_collection: whether it raised, and the client and collection
\* caches it leaves.
get_chroma_collection(outcome) ==
    IF ~EMBEDDING_AVAILABLE
    THEN [raised |-> FALSE, collection |-> None,
          client |-> chroma_client, collections |-> chroma_collections]
    ELSE IF chroma_client = None /\ outcome = "client_raises"
    THEN [raised |-> TRUE, collection |-> None,
          client |-> chroma_client, collections |-> chroma_collections]
    ELSE IF "knowledge_base" \in chroma_collections
    THEN [raised |-> FALSE, collection |-> "knowledge_base",
          client |-> "client", collections |-> chroma_collections]
    ELSE IF outcome = "collection_raises"
    THEN [raised |-> TRUE, collection |-> None,
          client |-> "client", collections |-> chroma_collections]
    ELSE [raised |-> FALSE, collection |-> "knowledge_base",
          client |-> "client",
          collections |-> chroma_collections \cup {"knowledge_base"}]

\* The cached handle refers to a collection the client has deleted: every
\* call on it raises.
StaleHandle ==
    "knowledge_base" \in chroma_collections /\ cached_collection # store_collection

\* The collection ids after a call that left the given handle cache:
\* a handle that was not cached before is the one get_collection found or
\* create_collection made.
CollectionIdsAfter(collections) ==
    IF "knowledge_base" \in collections /\ "knowledge_base" \notin chroma_collections
    THEN /\ store_collection' = (IF store_collection = 0 THEN 1 ELSE store_collection)
         /\ cached_collection' = (IF store_collection = 0 THEN 1 ELSE store_collection)
    ELSE UNCHANGED collectionVars

\* SentenceTransformer(name) raises during this call.
CtorRaises(name, outcome) ==
    \/ outcome = "ctor_raises"
    \/ outcome = "custom_ctor_raises" /\ name # DEFAULT_EMBEDDING_MODEL

\* get_embedding_model: the model returned (by name) or None, and the cache
\* it leaves.
get_embedding_model(model_name_arg, outcome) ==
    LET model_name == IF model_name_arg = None THEN DEFAULT_EMBEDDING_MODEL
                      ELSE model_name_arg
    IN  IF ~EMBEDDING_AVAILABLE
        THEN [model |-> None, models |-> embedding_models]
        ELSE IF model_name \in embedding_models
        THEN [model |-> model_name, models |-> embedding_models]
        ELSE IF ~CtorRaises(model_name, outcome)
        THEN [model |-> model_name, models |-> embedding_models \cup {model_name}]
        ELSE IF model_name # DEFAULT_EMBEDDING_MODEL
        THEN \* get_embedding_model(DEFAULT_EMBEDDING_MODEL)
             IF DEFAULT_EMBEDDING_MODEL \in embedding_models
             THEN [model |-> DEFAULT_EMBEDDING_MODEL, models |-> embedding_models]
             ELSE IF ~CtorRaises(DEFAULT_EMBEDDING_MODEL, outcome)
             THEN [model |-> DEFAULT_EMBEDDING_MODEL,
                   models |-> embedding_models \cup {DEFAULT_EMBEDDING_MODEL}]
             ELSE [model |-> None, models |-> embedding_models]
        ELSE [model |-> None, models |-> embedding_models]

\* generate_embedding: whether an embedding was produced, and the model
\* cache it leaves.
generate_embedding(model_name_arg, outcome) ==
    LET loaded == get_embedding_model(model_name_arg, outcome)
    IN  [embedded |-> (loaded.model # None /\ outcome # "encode_raises"),
         models |-> loaded.models]

\* Mutant: the distance itself is reported as the similarity.
MapResults_RawDistance(query, ids) ==
    LET present == SelectSeq(ids, LAMBDA id : id \in kb)
    IN  [i \in 1..Len(present) |-> Match(present[i], Distance(query, present[i]))]

\* MapResults without the test for the database row.
MapResults_KeepsDeleted(query, ids) ==
    [i \in 1..Len(ids) |-> Match(ids[i], 100 - Distance(query, ids[i]))]

\* The loop over results['ids'][0]: ids without a database row are skipped,
\* the others get similarity = 1.0 - distance.
MapResults(query, ids) ==
    LET present == SelectSeq(ids, LAMBDA id : id \in kb)
    IN  [i \in 1..Len(present) |-> Match(present[i], 100 - Distance(query, present[i]))]

\* search_knowledge_base_vector: the return statement reached ("path"), the
\* call that raised, if any ("failed"), and the result.
search_knowledge_base_vector(query, top_k, model_name_arg, outcome) ==
    LET keyword == search_knowledge_base_keyword(query, top_k)
        got == get_chroma_collection(outcome)
        emb == generate_embedding(model_name_arg, outcome)
        loaded == get_embedding_model(model_name_arg, outcome)
        query_raises == outcome = "index_raises" \/ top_k <= 0 \/ StaleHandle
        matched_articles == MapResults(query, CollectionQuery(query, top_k))
        unchanged == [client |-> chroma_client, collections |-> chroma_collections,
                      models |-> embedding_models]
        after_collection == [client |-> got.client, collections |-> got.collections,
                             models |-> embedding_models]
        after_embedding == [client |-> got.client, collections |-> got.collections,
                            models |-> emb.models]
    IN  IF ~EMBEDDING_AVAILABLE
        THEN [path |-> "keyword", failed |-> "import", results |-> keyword,
              caches |-> unchanged]
        ELSE IF got.raised
        THEN [path |-> "raised",
              failed |-> IF chroma_client = None /\ outcome = "client_raises"
                         THEN "client" ELSE "collection",
              results |-> <<>>, caches |-> after_collection]
        ELSE IF ~emb.embedded
        THEN [path |-> "keyword",
              failed |-> IF loaded.model = None THEN "ctor" ELSE "encode",
              results |-> keyword, caches |-> after_embedding]
        ELSE IF query_raises
        THEN [path |-> "keyword", failed |-> "query", results |-> keyword,
              caches |-> after_embedding]
        ELSE IF matched_articles = <<>>
        THEN [path |-> "keyword", failed |-> "no_results", results |-> keyword,
              caches |-> after_embedding]
        ELSE [path |-> "vector", failed |-> "none", results |-> matched_articles,
              caches |-> after_embedding]

\* The top_k arguments of the searches.
TopKs == {0, 2, TopK}

SearchKnowledgeBase ==
    /\ \E query \in Queries, top_k \in TopKs, model_name_arg \in ModelNameArgs :
         \E outcome \in OutcomesFor(model_name_arg) :
           \E r \in {search_knowledge_base_vector(query, top_k, model_name_arg, outcome)} :
               /\ search' = [op |-> "search", query |-> query, top_k |-> top_k,
                             path |-> r.path, failed |-> r.failed,
                             results |-> r.results]
               /\ chroma_client' = r.caches.client
               /\ chroma_collections' = r.caches.collections
               /\ embedding_models' = r.caches.models
               /\ CollectionIdsAfter(r.caches.collections)
    /\ UNCHANGED <<lifecycleVars, composeVars, routerVars,
                   EMBEDDING_AVAILABLE, kb, kbNextId, index, loads, pc, textVars>>

\* add_article_to_vector_db for the article with the given id (callers pass
\* no embedding_model_name): whether it raised, the index and the caches it
\* leaves.
add_article_to_vector_db(article_id, outcome) ==
    LET got == get_chroma_collection(outcome)
        emb == generate_embedding(None, outcome)
    IN  IF ~EMBEDDING_AVAILABLE
        THEN [raised |-> FALSE, upserted |-> FALSE, index |-> index,
              client |-> chroma_client,
              collections |-> chroma_collections, models |-> embedding_models]
        ELSE IF got.raised
        THEN [raised |-> TRUE, upserted |-> FALSE, index |-> index,
              client |-> got.client,
              collections |-> got.collections, models |-> embedding_models]
        ELSE IF ~emb.embedded \/ outcome = "index_raises" \/ StaleHandle
        THEN [raised |-> FALSE, upserted |-> FALSE, index |-> index,
              client |-> got.client,
              collections |-> got.collections, models |-> emb.models]
        ELSE [raised |-> FALSE, upserted |-> TRUE, index |-> index \cup {article_id},
              client |-> got.client, collections |-> got.collections,
              models |-> emb.models]

\* create_article (for a request that names its tenant): the row is
\* committed, then embedded and indexed.
create_article(outcome) ==
    /\ kbNextId <= MaxArticles
    /\ \E added \in {add_article_to_vector_db(kbNextId, outcome)} :
           /\ kb' = kb \cup {kbNextId}
           /\ kbNextId' = kbNextId + 1
           /\ index' = added.index
           /\ chroma_client' = added.client
           /\ chroma_collections' = added.collections
           /\ embedding_models' = added.models
           /\ CollectionIdsAfter(added.collections)
           /\ article_text' = [id \in kb \cup {kbNextId} |->
                                  IF id = kbNextId THEN 0 ELSE article_text[id]]
           /\ index_text' = [id \in added.index |->
                                IF id = kbNextId THEN 0 ELSE index_text[id]]
    /\ UNCHANGED <<lifecycleVars, composeVars, routerVars,
                   EMBEDDING_AVAILABLE, search, loads, pc>>

\* delete_article: the row is deleted; the index is not touched.  (An
\* unknown id is answered 404 and changes nothing.)
delete_article(article_id) ==
    /\ article_id \in kb
    /\ kb' = kb \ {article_id}
    /\ article_text' = [id \in kb \ {article_id} |-> article_text[id]]
    /\ UNCHANGED <<lifecycleVars, composeVars, routerVars, EMBEDDING_AVAILABLE,
                   kbNextId, index, index_text, search, cacheVars, collectionVars>>

CreateArticle == \E outcome \in OutcomesFor(None) : create_article(outcome)

DeleteArticle == \E article_id \in 1..MaxArticles : delete_article(article_id)

NextRag == CreateArticle \/ DeleteArticle \/ SearchKnowledgeBase

SpecRag == InitAnyBuild /\ [][NextRag]_vars

(***************************************************************************)
(* Claims about retrieval.                                                  *)
(***************************************************************************)
\* C16: a search that returns gives at most top_k results in descending
\* order of score, on the vector path (index ids without a database article
\* being skipped) and on the keyword path.
C16_SortedAtMostK ==
    (search.op = "search" /\ search.path # "raised") =>
        /\ Len(search.results) <= search.top_k
        /\ \A i \in 1..Len(search.results), j \in 1..Len(search.results) :
               i < j => search.results[i].match_score >= search.results[j].match_score

\* C16 witness: a vector search with top_k = 3 over an index of three
\* entries, one of them without database article, returned the two others,
\* the better one first.
C16_Witness ==
    /\ search.op = "search"
    /\ search.path = "vector"
    /\ search.top_k = 3
    /\ Cardinality(index) = 3
    /\ Cardinality(index \ kb) = 1
    /\ Len(search.results) = 2
    /\ search.results[1].match_score > search.results[2].match_score

\* A step that is a search: it leaves the knowledge base and the index as
\* they are and records a search.
IsSearchStep ==
    /\ search'.op = "search"
    /\ kb' = kb /\ index' = index /\ kbNextId' = kbNextId
    /\ article_text' = article_text /\ index_text' = index_text

\* C17: search_knowledge_base_vector returns exactly the keyword search's
\* result (the articles sharing a word with the query, scored
\* |query words & article words| / |query words|, best first, top_k of them)
\* when embeddings are unavailable, the query embedding cannot be produced,
\* the index query raises or no index neighbour has a database article;
\* otherwise it returns the index neighbours that have a database article,
\* nearest first, with similarity = 1 - distance.
C17_KeywordFallbackOrNeighbours ==
    [][IsSearchStep =>
        LET query == search'.query
            top_k == search'.top_k
            results == search'.results
            scoreOf(id) ==
                (Cardinality(QueryWords[query] \cap ArticleWords[id]) * 100)
                    \div Cardinality(QueryWords[query])
            keyword == search_knowledge_base_keyword(query, top_k)
            sharing == {id \in kb : QueryWords[query] \cap ArticleWords[id] # {}}
            limit == IF top_k < Cardinality(sharing) THEN top_k
                     ELSE Cardinality(sharing)
            neighbours == SelectSeq(CollectionQuery(query, top_k),
                                    LAMBDA id : id \in kb)
        IN  /\ search'.failed \in {"import", "ctor", "encode", "query", "no_results"} =>
                /\ search'.path = "keyword"
                /\ results = keyword
                /\ Len(results) = limit
                /\ \A i \in 1..Len(results) :
                       /\ results[i].id \in sharing
                       /\ results[i].match_score = scoreOf(results[i].id)
                       /\ \A id \in sharing :
                              scoreOf(id) > results[i].match_score =>
                                  \E j \in 1..(i - 1) : results[j].id = id
            /\ search'.failed = "none" =>
                /\ search'.path = "vector"
                /\ Len(results) = Len(neighbours)
                /\ Len(results) > 0
                /\ \A i \in 1..Len(results) :
                       /\ results[i].id = neighbours[i]
                       /\ results[i].similarity = 100 - Distance(query, neighbours[i])
    ]_vars

\* C17 witness: with the model cached and the index holding only entries of
\* deleted articles, a search fell back to the keyword search and returned
\* its two matches.
C17_Witness ==
    /\ search.op = "search"
    /\ search.failed = "no_results"
    /\ search.path = "keyword"
    /\ index # {}
    /\ index \cap kb = {}
    /\ Len(search.results) = 2

\* C18: when the embedding model cannot be loaded or the vector index cannot
\* be reached (the model constructor, the index client or the collection
\* creation raises), the search returns the keyword fallback's result and no
\* exception reaches the caller.
C18_BackendFailureFallsBack ==
    (search.op = "search" /\ search.failed \in {"ctor", "client", "collection"}) =>
        search.path = "keyword"

(***************************************************************************)
(* get_embedding_model run by several threads.  A thread can be preempted   *)
(* between the cache test (rag_service.py:47) and the constructor call      *)
(* (line 53): the function takes no lock.                                   *)
(***************************************************************************)
MaxLoads == 2

\* Lines 40-48 (and the same lines of the recursive call of line 60): the
\* cache test for a name.  A hit returns the cached model, a miss goes on to
\* the constructor.
AfterCacheTest(model_name) ==
    IF model_name \in embedding_models THEN Idle
    ELSE [at |-> "construct", name |-> model_name]

\* A thread calls get_embedding_model(model_name_arg) and runs up to the
\* constructor call.
BeginLoad(t, model_name_arg) ==
    /\ EMBEDDING_AVAILABLE
    /\ pc[t] = Idle
    /\ LET model_name == IF model_name_arg = None THEN DEFAULT_EMBEDDING_MODEL
                         ELSE model_name_arg
       IN  /\ model_name \notin embedding_models
           /\ pc' = [pc EXCEPT ![t] = AfterCacheTest(model_name)]
    /\ UNCHANGED <<lifecycleVars, composeVars, routerVars, EMBEDDING_AVAILABLE,
                   kb, kbNextId, index, search, embedding_models, chroma_client,
                   chroma_collections, loads, textVars, collectionVars>>

\* Lines 51-61: SentenceTransformer(model_name) runs; the model is cached, or
\* the constructor raised and the default model is tried, or None returned.
Construct(t, raises) ==
    /\ pc[t].at = "construct"
    /\ loads[pc[t].name] < MaxLoads
    /\ loads' = [loads EXCEPT ![pc[t].name] = @ + 1]
    /\ IF ~raises
       THEN /\ embedding_models' = embedding_models \cup {pc[t].name}
            /\ pc' = [pc EXCEPT ![t] = Idle]
       ELSE /\ embedding_models' = embedding_models
            /\ pc' = [pc EXCEPT ![t] =
                          IF pc[t].name # DEFAULT_EMBEDDING_MODEL
                          THEN AfterCacheTest(DEFAULT_EMBEDDING_MODEL)
                          ELSE Idle]
    /\ UNCHANGED <<lifecycleVars, composeVars, routerVars, EMBEDDING_AVAILABLE,
                   kb, kbNextId, index, search, chroma_client, chroma_collections,
                   textVars, collectionVars>>

GetEmbeddingModel ==
    \E t \in Threads, model_name_arg \in ModelNameArgs : BeginLoad(t, model_name_arg)

RunConstructor == \E t \in Threads, raises \in BOOLEAN : Construct(t, raises)

NextLoad == GetEmbeddingModel \/ RunConstructor

SpecLoad == Init /\ [][NextLoad]_vars

\* C19: for every model name the constructor SentenceTransformer(name) runs
\* at most once, whatever the interleaving of concurrent first callers and
\* whatever calls follow.
C19_AtMostOneLoadPerName == \A name \in ModelNames : loads[name] <= 1

(***************************************************************************)
(* classify_intent and classify_intent_keyword (services/router_agent.py).  *)
(* Similarities, scores and confidences are in thousandths.                 *)
(***************************************************************************)
\* The keys of INTENT_EXAMPLES, in the order of the dict.
IntentOrder ==
    <<"faq", "order_inquiry", "technical_support", "complaint", "general">>

\* The keys of keyword_patterns, in the order of the dict.
KeywordIntentOrder == <<"order_inquiry", "technical_support", "complaint", "faq">>

keyword_patterns ==
    [order_inquiry |->
        [strong |-> {<<"o", "r", "d", "e", "r", " ", "#">>, <<"t", "r", "a", "c", "k", "i", "n", "g">>, <<"t", "r", "a", "c", "k", " ", "o", "r", "d", "e", "r">>, <<"o", "r", "d", "e", "r", " ", "s", "t", "a", "t", "u", "s">>, <<"w", "h", "e", "r", "e", " ", "i", "s", " ", "m", "y", " ", "o", "r", "d", "e", "r">>},
         medium |-> {<<"o", "r", "d", "e", "r">>, <<"s", "h", "i", "p", "m", "e", "n", "t">>, <<"d", "e", "l", "i", "v", "e", "r", "y">>, <<"p", "a", "c", "k", "a", "g", "e">>},
         weak |-> {<<"c", "a", "n", "c", "e", "l">>, <<"m", "o", "d", "i", "f", "y">>, <<"c", "h", "a", "n", "g", "e", " ", "o", "r", "d", "e", "r">>}],
     technical_support |->
        [strong |-> {<<"n", "o", "t", " ", "w", "o", "r", "k", "i", "n", "g">>, <<"e", "r", "r", "o", "r", " ", "m", "e", "s", "s", "a", "g", "e">>, <<"c", "a", "n", "'", "t", " ", "l", "o", "g">>, <<"w", "o", "n", "'", "t", " ", "l", "o", "a", "d">>, <<"k", "e", "e", "p", "s", " ", "c", "r", "a", "s", "h", "i", "n", "g">>},
         medium |-> {<<"e", "r", "r", "o", "r">>, <<"b", "u", "g">>, <<"c", "r", "a", "s", "h">>, <<"b", "r", "o", "k", "e", "n">>, <<"l", "o", "g", "i", "n", " ", "i", "s", "s", "u", "e">>},
         weak |-> {<<"h", "e", "l", "p">>, <<"p", "r", "o", "b", "l", "e", "m">>, <<"i", "s", "s", "u", "e">>, <<"t", "r", "o", "u", "b", "l", "e">>}],
     complaint |->
        [strong |-> {<<"f", "i", "l", "e", " ", "a", " ", "c", "o", "m", "p", "l", "a", "i", "n", "t">>, <<"v", "e", "r", "y", " ", "d", "i", "s", "a", "p", "p", "o", "i", "n", "t", "e", "d">>, <<"t", "h", "i", "s", " ", "i", "s", " ", "u", "n", "a", "c", "c", "e", "p", "t", "a", "b", "l", "e">>, <<"t", "e", "r", "r", "i", "b", "l", "e", " ", "s", "e", "r", "v", "i", "c", "e">>},
         medium |-> {<<"c", "o", "m", "p", "l", "a", "i", "n", "t">>, <<"u", "n", "h", "a", "p", "p", "y">>, <<"d", "i", "s", "a", "p", "p", "o", "i", "n", "t", "e", "d">>, <<"f", "r", "u", "s", "t", "r", "a", "t", "e", "d">>, <<"a", "n", "g", "r", "y">>},
         weak |-> {<<"b", "a", "d">>, <<"d", "a", "m", "a", "g", "e", "d">>, <<"w", "r", "o", "n", "g">>, <<"d", "e", "f", "e", "c", "t", "i", "v", "e">>, <<"p", "o", "o", "r">>}],
     faq |->
        [strong |-> {<<"r", "e", "t", "u", "r", "n", " ", "p", "o", "l", "i", "c", "y">>, <<"r", "e", "f", "u", "n", "d", " ", "p", "o", "l", "i", "c", "y">>, <<"s", "h", "i", "p", "p", "i", "n", "g", " ", "c", "o", "s", "t">>, <<"b", "u", "s", "i", "n", "e", "s", "s", " ", "h", "o", "u", "r", "s">>},
         medium |-> {<<"p", "o", "l", "i", "c", "y">>, <<"h", "o", "w", " ", "d", "o", " ", "i">>, <<"w", "h", "a", "t", " ", "i", "s">>, <<"d", "o", " ", "y", "o", "u", " ", "h", "a", "v", "e">>, <<"c", "a", "n", " ", "i">>},
         weak |-> {<<"r", "e", "t", "u", "r", "n">>, <<"r", "e", "f", "u", "n", "d">>, <<"s", "h", "i", "p", "p", "i", "n", "g">>, <<"w", "a", "r", "r", "a", "n", "t", "y">>}]]

\* classify_intent_keyword: greetings
greetings ==
    {<<"h", "e", "l", "l", "o">>, <<"h", "i">>, <<"h", "e", "y">>, <<"g", "o", "o", "d", " ", "m", "o", "r", "n", "i", "n", "g">>, <<"g", "o", "o", "d", " ", "a", "f", "t", "e", "r", "n", "o", "o", "n">>}

\* len(text.split()): the number of maximal runs of non-blank characters.
WordCount(text) ==
    Cardinality({i \in 1..Len(text) :
                    text[i] # " " /\ (i = 1 \/ text[i - 1] = " ")})

\* The number of the keywords that occur in the text.
Hits(keywords, text) == Cardinality({k \in keywords : Contains(text, k)})

\* The first position of a sequence of intents with the highest score
\* (max(scores, key=scores.get), and the head of a stable descending sort).
RECURSIVE RankIntents(_, _)
RankIntents(intents, score) ==
    IF intents = <<>> THEN <<>>
    ELSE LET best == CHOOSE i \in 1..Len(intents) :
                         /\ \A j \in 1..Len(intents) :
                                score[intents[j]] <= score[intents[i]]
                         /\ \A j \in 1..(i - 1) :
                                score[intents[j]] < score[intents[i]]
         IN  <<intents[best]>>
             \o RankIntents(SubSeq(intents, 1, best - 1)
                            \o SubSeq(intents, best + 1, Len(intents)), score)

Min(a, b) == IF a < b THEN a ELSE b

\* classify_intent_keyword with the boosted confidence capped at 1.0.
classify_intent_keyword_NoCap(user_message) ==
    LET user_lower == Lower(user_message)
        \* 1.0 per strong, 0.5 per medium, 0.2 per weak keyword, in tenths
        points(intent) ==
            10 * Hits(keyword_patterns[intent].strong, user_lower)
            + 5 * Hits(keyword_patterns[intent].medium, user_lower)
            + 2 * Hits(keyword_patterns[intent].weak, user_lower)
        \* min(score / max_score, 1.0), max_score = len(patterns["strong"])
        scores == [intent \in DOMAIN keyword_patterns |->
                      Min((points(intent) * 100)
                              \div Cardinality(keyword_patterns[intent].strong),
                          1000)]
        best_intent == RankIntents(KeywordIntentOrder, scores)[1]
        confidence == scores[best_intent]
    IN  IF AnyWordIn(greetings, user_lower) /\ WordCount(user_lower) <= 3
        THEN [intent |-> "general", confidence |-> 700]
        ELSE IF \A intent \in DOMAIN scores : scores[intent] = 0
        THEN [intent |-> "general", confidence |-> 500]
        ELSE [intent |-> best_intent,
              confidence |-> IF confidence > 600 THEN Min(confidence + 100, 1000)
                             ELSE confidence]

\* classify_intent_keyword
classify_intent_keyword(user_message) ==
    LET user_lower == Lower(user_message)
        \* 1.0 per strong, 0.5 per medium, 0.2 per weak keyword, in tenths
        points(intent) ==
            10 * Hits(keyword_patterns[intent].strong, user_lower)
            + 5 * Hits(keyword_patterns[intent].medium, user_lower)
            + 2 * Hits(keyword_patterns[intent].weak, user_lower)
        \* min(score / max_score, 1.0), max_score = len(patterns["strong"])
        scores == [intent \in DOMAIN keyword_patterns |->
                      Min((points(intent) * 100)
                              \div Cardinality(keyword_patterns[intent].strong),
                          1000)]
        best_intent == RankIntents(KeywordIntentOrder, scores)[1]
        confidence == scores[best_intent]
    IN  IF AnyWordIn(greetings, user_lower) /\ WordCount(user_lower) <= 3
        THEN [intent |-> "general", confidence |-> 700]
        ELSE IF \A intent \in DOMAIN scores : scores[intent] = 0
        THEN [intent |-> "general", confidence |-> 500]
        ELSE [intent |-> best_intent,
              confidence |-> IF confidence > 600 THEN Min(confidence + 100, 850)
                             ELSE confidence]

\* sorted(similarities, reverse=True)
RECURSIVE SortedDescending(_)
SortedDescending(values) ==
    IF values = <<>> THEN <<>>
    ELSE LET best == CHOOSE i \in 1..Len(values) :
                         \A j \in 1..Len(values) : values[j] <= values[i]
         IN  <<values[best]>>
             \o SortedDescending(SubSeq(values, 1, best - 1)
                                 \o SubSeq(values, best + 1, Len(values)))

RECURSIVE Sum(_)
Sum(values) == IF values = <<>> THEN 0 ELSE values[1] + Sum(Tail(values))

\* sum(top_similarities) / len(top_similarities) for the top 3
TopThreeMean(similarities) ==
    LET top_similarities == Take(SortedDescending(similarities), 3)
    IN  Sum(top_similarities) \div Len(top_similarities)

\* EmbeddingConfidence with the margin tests made inclusive.
EmbeddingConfidence_Inclusive(best_score, second_best_score, has_second) ==
    LET margin == best_score - second_best_score
    IN  IF has_second /\ margin >= 150 THEN Min(best_score + 100, 1000)
        ELSE IF has_second /\ margin >= 80 THEN Min(best_score + 50, 1000)
        ELSE best_score

\* The confidence of the embedding path, lines 195-210.
EmbeddingConfidence(best_score, second_best_score, has_second) ==
    LET margin == best_score - second_best_score
    IN  IF has_second /\ margin > 150 THEN Min(best_score + 100, 1000)
        ELSE IF has_second /\ margin > 80 THEN Min(best_score + 50, 1000)
        ELSE best_score

\* classify_intent for a message whose embedding was produced; similarities
\* gives, per intent, the cosine similarities between the message and the
\* examples of the intent that could be embedded.
classify_intent_embedding(similarities) ==
    LET scored == SelectSeq(IntentOrder, LAMBDA intent : similarities[intent] # <<>>)
        intent_scores == [intent \in {scored[i] : i \in 1..Len(scored)} |->
                             TopThreeMean(similarities[intent])]
        sorted_intents == RankIntents(scored, intent_scores)
        best_score == intent_scores[sorted_intents[1]]
    IN  IF scored = <<>>
        THEN [intent |-> "general", confidence |-> 500]
        ELSE [intent |-> sorted_intents[1],
              confidence |->
                  EmbeddingConfidence(
                      best_score,
                      IF Len(sorted_intents) > 1 THEN intent_scores[sorted_intents[2]]
                      ELSE 0,
                      Len(sorted_intents) > 1)]

\* The messages that are classified.
ClassifyMessages ==
    {<<"T", "h", "e", " ", "w", "e", "b", "s", "i", "t", "e", " ", "i", "s", " ", "n", "o", "t", " ", "w", "o", "r", "k", "i", "n", "g">>,
     <<"H", "e", "l", "l", "o">>,
     <<"w", "h", "e", "r", "e", " ", "i", "s", " ", "m", "y", " ", "o", "r", "d", "e", "r", " ", "t", "r", "a", "c", "k", "i", "n", "g", " ", "o", "r", "d", "e", "r", " ", "s", "t", "a", "t", "u", "s">>,
     <<"o", "r", "d", "e", "r", " ", "#", " ", "t", "r", "a", "c", "k", "i", "n", "g", " ", "t", "r", "a", "c", "k", " ", "o", "r", "d", "e", "r", " ", "o", "r", "d", "e", "r", " ", "s", "t", "a", "t", "u", "s", " ", "w", "h", "e", "r", "e", " ", "i", "s", " ", "m", "y", " ", "o", "r", "d", "e", "r">>,
     <<"x", "y", "z">>}

\* classify_intent_keyword of each of the messages, as an explicit table.
KeywordClassification ==
    [m \in ClassifyMessages |-> classify_intent_keyword(m)] @@ <<>>

\* Cosine similarities (-1..1) of a message to the examples of one intent:
\* very close, close, moderate, all negative, a single negative one, and no
\* example that could be embedded; SimMargin150 and SimMargin80 have a
\* top-3 mean exactly 0.15 and 0.08 above that of SimLow.
SimHigh == <<990, 960, 900, 300>>
SimMid == <<540, 120, 600, 480>>
SimLow == <<450, 480, 420>>
SimMargin150 == <<630, 100, 600, 570>>
SimMargin80 == <<500, 560, 530>>
SimNegative == <<-120, -60, -240, -180>>
SimOne == <<-30>>
SimNone == <<>>

SimilaritySamples ==
    [faq : {SimHigh, SimMid, SimMargin150, SimMargin80, SimNegative, SimNone},
     order_inquiry : {SimMid, SimLow, SimNegative},
     technical_support : {SimNegative, SimNone},
     complaint : {SimLow, SimNegative},
     general : {SimHigh, SimOne, SimNone}]

\* classify_intent_embedding of each of the similarity samples, as an
\* explicit table.
EmbeddingClassification ==
    [s \in SimilaritySamples |-> classify_intent_embedding(s)] @@ <<>>

\* classify_intent: the path taken, the result and the model cache it
\* leaves.  The outcome decides whether generate_embedding(user_message)
\* produces an embedding.
classify_intent(user_message, similarities, outcome) ==
    LET emb == generate_embedding(None, outcome)
    IN  IF ~EMBEDDING_AVAILABLE \/ ~emb.embedded
        THEN [path |-> "keyword", result |-> KeywordClassification[user_message],
              models |-> emb.models]
        ELSE [path |-> "embedding", result |-> EmbeddingClassification[similarities],
              models |-> emb.models]

\* No similarity is computed when the message has no embedding.
NoSimilarities == [intent \in {IntentOrder[i] : i \in 1..Len(IntentOrder)} |-> <<>>]

ClassifyIntent ==
    /\ \E user_message \in ClassifyMessages,
          outcome \in {"ok", "ctor_raises", "encode_raises"} \cap OutcomesFor(None) :
         \E similarities \in
                (IF EMBEDDING_AVAILABLE /\ generate_embedding(None, outcome).embedded
                 THEN SimilaritySamples ELSE {NoSimilarities}) :
           \E r \in {classify_intent(user_message, similarities, outcome)} :
             /\ call' = [op |-> "classify_intent",
                         user_message |-> user_message,
                         path |-> r.path,
                         similarities |-> similarities,
                         intent |-> r.result.intent,
                         confidence |-> r.result.confidence]
             /\ embedding_models' = r.models
    /\ UNCHANGED <<lifecycleVars, composeVars, EMBEDDING_AVAILABLE, kb, kbNextId,
                   index, search, chroma_client, chroma_collections, loads, pc,
                   textVars, collectionVars>>

NextClassify == ClassifyIntent

SpecClassify == InitAnyBuild /\ [][NextClassify]_vars

\* C20: the confidence classify_intent returns is in [0, 1], on the
\* embedding path (also when the category scores are negative) and on the
\* keyword path.
C20_ConfidenceInUnitInterval ==
    call.op = "classify_intent" => (0 <= call.confidence /\ call.confidence <= 1000)

\* ---------------------------------------------------------------------
\* Greeting bypass, zero default and the two scoring rules of
\* classify_intent.

\* The message of the last call has at most three tokens and contains a
\* greeting.
IsShortGreeting ==
    /\ call.op = "classify_intent"
    /\ AnyWordIn(greetings, Lower(call.user_message))
    /\ WordCount(Lower(call.user_message)) <= 3

\* C21: a message of at most three tokens that contains a greeting is
\* classified general with confidence 0.7, on the embedding path and on
\* the keyword path alike.
C21_GreetingIsGeneral ==
    IsShortGreeting => call.intent = "general" /\ call.confidence = 700

\* Every category that has a score has a score of at most zero.
NoPositiveEmbeddingScore ==
    \A intent \in DOMAIN call.similarities :
        call.similarities[intent] # <<>>
            => TopThreeMean(call.similarities[intent]) <= 0

\* No keyword of any category occurs in the message of the last call.
NoKeywordMatched ==
    \A intent \in DOMAIN keyword_patterns :
        \A strength \in {"strong", "medium", "weak"} :
            Hits(keyword_patterns[intent][strength], Lower(call.user_message)) = 0

\* C22: when no category scores above zero, classify_intent returns
\* general with confidence 0.5: on the embedding path when every category
\* score is at most zero, on the keyword path when no keyword matched.
C22_NoScoreIsGeneralDefault ==
    (/\ call.op = "classify_intent"
     /\ ~IsShortGreeting
     /\ \/ call.path = "embedding" /\ NoPositiveEmbeddingScore
        \/ call.path = "keyword" /\ NoKeywordMatched)
        => call.intent = "general" /\ call.confidence = 500

\* The categories that have a score in the last call, the score of the
\* winner and the best score among the others.
ScoredIntents == {intent \in DOMAIN call.similarities : call.similarities[intent] # <<>>}

WinnerScore == TopThreeMean(call.similarities[call.intent])

RunnerUpScore ==
    LET others == {TopThreeMean(call.similarities[intent]) :
                       intent \in ScoredIntents \ {call.intent}}
    IN  CHOOSE m2 \in others : \A other \in others : other <= m2

IsEmbeddingRanking ==
    /\ call.op = "classify_intent"
    /\ call.path = "embedding"
    /\ Cardinality(ScoredIntents) > 1

\* C23: on the embedding path the category with the highest top-3 mean m
\* wins, and the confidence is min(m + 0.10, 1.0) when m exceeds the
\* second-best mean m2 by more than 0.15, min(m + 0.05, 1.0) when by more
\* than 0.08, and m otherwise; a margin of exactly 0.15 gets + 0.05 and a
\* margin of exactly 0.08 gets no boost.
C23_EmbeddingMarginBoost ==
    IsEmbeddingRanking =>
        /\ call.intent \in ScoredIntents
        /\ \A intent \in ScoredIntents :
               TopThreeMean(call.similarities[intent]) <= WinnerScore
        /\ call.confidence =
               (IF WinnerScore - RunnerUpScore > 150 THEN Min(WinnerScore + 100, 1000)
                ELSE IF WinnerScore - RunnerUpScore > 80 THEN Min(WinnerScore + 50, 1000)
                ELSE WinnerScore)

\* C23 witness: a margin of exactly 0.15 was boosted by 0.05.
C23_Witness ==
    /\ IsEmbeddingRanking
    /\ WinnerScore - RunnerUpScore = 150
    /\ call.confidence = WinnerScore + 50

\* A margin of exactly 0.08 was left without a boost.
C23_MarginEightyNoBoost ==
    /\ IsEmbeddingRanking
    /\ WinnerScore - RunnerUpScore = 80
    /\ call.confidence = WinnerScore

\* The score of a category for the message of the last call:
\* (1.0 strong + 0.5 medium + 0.2 weak) / number of strong keywords,
\* clamped to [0, 1].
KeywordScore(intent) ==
    LET text == Lower(call.user_message)
        patterns == keyword_patterns[intent]
        tenths == 10 * Hits(patterns.strong, text) + 5 * Hits(patterns.medium, text)
                  + 2 * Hits(patterns.weak, text)
        score == (tenths * 100) \div Cardinality(patterns.strong)
    IN  IF score > 1000 THEN 1000 ELSE score

TheWebsiteIsNotWorking == <<"T", "h", "e", " ", "w", "e", "b", "s", "i", "t", "e", " ", "i", "s", " ", "n", "o", "t", " ", "w", "o", "r", "k", "i", "n", "g">>

\* C24: on the keyword path the category with the highest score c wins
\* and the confidence is min(c + 0.1, 0.85) when c > 0.6 and c otherwise;
\* the keyword path never returns a confidence above 0.85; and with
\* embeddings unavailable 'The website is not working' is classified
\* technical_support.
C24_KeywordScoring ==
    (call.op = "classify_intent" /\ call.path = "keyword") =>
        /\ call.confidence <= 850
        /\ (~IsShortGreeting /\ ~NoKeywordMatched) =>
               /\ call.intent \in DOMAIN keyword_patterns
               /\ \A intent \in DOMAIN keyword_patterns :
                      KeywordScore(intent) <= KeywordScore(call.intent)
               /\ call.confidence =
                      (IF KeywordScore(call.intent) > 600
                       THEN Min(KeywordScore(call.intent) + 100, 850)
                       ELSE KeywordScore(call.intent))
        /\ call.user_message = TheWebsiteIsNotWorking
               => call.intent = "technical_support"

\* C24 witness: with embeddings unavailable 'The website is not working'
\* was classified technical_support by its keywords.
C24_Witness ==
    /\ call.op = "classify_intent"
    /\ ~EMBEDDING_AVAILABLE
    /\ call.path = "keyword"
    /\ call.user_message = TheWebsiteIsNotWorking
    /\ call.intent = "technical_support"

\* A score clamped to 1.0 was boosted to the cap of 0.85.
C24_CapReached ==
    /\ call.op = "classify_intent"
    /\ call.path = "keyword"
    /\ ~IsShortGreeting
    /\ call.intent \in DOMAIN keyword_patterns
    /\ KeywordScore(call.intent) = 1000
    /\ call.confidence = 850

\* ---------------------------------------------------------------------
\* generate_fallback_response on its own.

\* Messages that name one keyword family, several, or none.
FallbackMessages ==
    {<<"R", "e", "f", "u", "n", "d">>,
     <<"e", "x", "c", "h", "a", "n", "g", "e", " ", "i", "t">>,
     <<"s", "h", "i", "p", "p", "i", "n", "g">>,
     <<"W", "h", "e", "r", "e", " ", "i", "s", " ", "m", "y", " ", "d", "e", "l", "i", "v", "e", "r", "y">>,
     <<"L", "o", "g", "i", "n">>,
     <<"p", "r", "i", "c", "e">>,
     <<"c", "a", "n", "c", "e", "l">>,
     <<"H", "e", "l", "l", "o">>,
     <<"o", "k">>,
     <<"r", "e", "f", "u", "n", "d", " ", "m", "y", " ", "o", "r", "d", "e", "r">>,
     <<"t", "r", "a", "c", "k", "i", "n", "g", " ", "m", "y", " ", "a", "c", "c", "o", "u", "n", "t">>,
     <<"r", "e", "s", "e", "t", " ", "i", "t", "e", "m", " ", "p", "r", "i", "c", "e">>,
     <<"o", "r", "d", "e", "r", " ", "d", "e", "t", "a", "i", "l", "s", " ", "h", "e", "y">>,
     <<"t", "h", "i", "s">>}

\* The top article with a given match score.
ScoredArticle(score) ==
    [ArticleReturn EXCEPT !.match_score = score, !.similarity = score]

\* Retrieval results, best first, as the searches return them.
FallbackArticleLists ==
    {<<>>, <<ArticleReturn, ArticleShipping>>, <<ScoredArticle(31), ArticleShipping>>}
    \cup {<<ScoredArticle(score)>> : score \in {0, 25, 30, 31, 80, 100}}

GenerateFallbackResponse ==
    /\ \E user_message \in FallbackMessages, matched_articles \in FallbackArticleLists :
           gen' = [op |-> "fallback",
                   user_message |-> user_message,
                   matched_articles |-> matched_articles,
                   response |-> generate_fallback_response(user_message,
                                                           matched_articles)]
    /\ UNCHANGED <<lifecycleVars, registry, routerVars, ragVars>>

NextFallback == GenerateFallbackResponse

SpecFallback == Init /\ [][NextFallback]_vars

\* The keyword families in the order they are tried.
KeywordFamilies ==
    <<ReturnWords, ShippingWords, AccountWords, ProductWords, OrderWords, GreetingWords>>

\* The reply of each family: the reply to a message naming that family only.
FamilyReply ==
    <<generate_fallback_response(<<"r", "e", "t", "u", "r", "n">>, <<>>),
      generate_fallback_response(<<"d", "e", "l", "i", "v", "e", "r", "y">>, <<>>),
      generate_fallback_response(<<"l", "o", "g", "i", "n">>, <<>>),
      generate_fallback_response(<<"s", "p", "e", "c", "s">>, <<>>),
      generate_fallback_response(<<"c", "a", "n", "c", "e", "l">>, <<>>),
      generate_fallback_response(<<"h", "e", "y">>, <<>>)>>

GenericReply == generate_fallback_response(<<"o", "k">>, <<>>)

\* The families of which a word occurs in the message of the last call.
MatchingFamilies ==
    {k \in 1..Len(KeywordFamilies) :
        AnyWordIn(KeywordFamilies[k], Lower(gen.user_message))}

HasTopMatch ==
    gen.matched_articles # <<>> /\ gen.matched_articles[1].match_score > 30

\* C26: generate_fallback_response returns the templated excerpt of the top
\* article whenever its score is above 0.3, whatever the keywords of the
\* message; otherwise the reply of the first matching keyword family in the
\* fixed order, or the generic statement when none matches; the result is
\* never empty.
C26_FallbackSelection ==
    gen.op = "fallback" =>
        /\ gen.response # ""
        /\ HasTopMatch =>
               gen.response =
                   "Based on our " \o gen.matched_articles[1].category \o " policy:\n\n"
                   \o gen.matched_articles[1].content
                   \o "...\n\nWould you like more specific information about this?"
        /\ (~HasTopMatch /\ MatchingFamilies # {}) =>
               \E k \in MatchingFamilies :
                   /\ \A other \in MatchingFamilies : k <= other
                   /\ gen.response = FamilyReply[k]
        /\ (~HasTopMatch /\ MatchingFamilies = {}) => gen.response = GenericReply
        /\ \A k, other \in 1..Len(FamilyReply) :
               /\ k # other => FamilyReply[k] # FamilyReply[other]
               /\ FamilyReply[k] # GenericReply

\* C26 witness: a message with keywords of two families got the article
\* excerpt because the top article scores above 0.3.
C26_Witness ==
    /\ gen.op = "fallback"
    /\ HasTopMatch
    /\ Cardinality(MatchingFamilies) > 1
    /\ gen.response # FamilyReply[1]

\* A score of exactly 0.3 left the reply to the first matching family.
C26_ThresholdFallsToKeywords ==
    /\ gen.op = "fallback"
    /\ gen.matched_articles # <<>>
    /\ gen.matched_articles[1].match_score = 30
    /\ Cardinality(MatchingFamilies) > 1
    /\ \E k \in MatchingFamilies : gen.response = FamilyReply[k]

\* ---------------------------------------------------------------------
\* The provider registry under register_provider and get_provider.

\* Names a provider class is registered under: a custom one, the column
\* default of a tenant configuration, and a built-in one in another case.
RegisterNames == {"custom", "ollama", "OpenAI"}

ResolveNames == ProviderNames \cup {"anthropic", "custom"}

\* register_provider: _PROVIDER_REGISTRY[name.lower()] = provider_class
RegisterProvider ==
    /\ \E name \in RegisterNames : registry' = registry \cup {LowerName(name)}
    /\ UNCHANGED <<gen, lifecycleVars, routerVars, ragVars>>

\* get_provider, with the lazy load it starts with.
GetProvider ==
    /\ \E provider_name \in ResolveNames, behaviour \in Behaviours :
           gen' = [op |-> "get_provider",
                   provider_name |-> provider_name,
                   behaviour |-> behaviour,
                   provider |-> get_provider(registry, provider_name, behaviour)]
    /\ registry' = LoadProviders(registry)
    /\ UNCHANGED <<lifecycleVars, routerVars, ragVars>>

NextRegistry == RegisterProvider \/ GetProvider

SpecRegistry == Init /\ [][NextRegistry]_vars

\* C29: once get_provider has been called, every built-in provider name is
\* in the registry and get_provider resolves it (to an instance whenever the
\* class constructs and is available), whatever register_provider calls
\* came before.
C29_BuiltinsAlwaysLoaded ==
    gen.op = "get_provider" =>
        /\ BuiltinProviders \subseteq registry
        /\ (/\ LowerName(gen.provider_name) \in BuiltinProviders
            /\ gen.behaviour \in {"raises", "returns"})
               => gen.provider # None

\* ---------------------------------------------------------------------
\* Editing articles and rebuilding the index.

MaxEdits == 1          \* changes of title or content per article
MaxCollections == 2    \* collections ever created under the name

\* update_article for a request that names its tenant and an existing
\* article: the row is committed; when the update carries a title or a
\* content, the article is embedded and upserted again.  (An unknown id is
\* answered 404 and changes nothing.)
update_article(article_id, changes_text, outcome) ==
    /\ article_id \in kb
    /\ changes_text => article_text[article_id] < MaxEdits
    /\ \E added \in {add_article_to_vector_db(article_id, outcome)} :
           IF changes_text
           THEN /\ article_text' = [article_text EXCEPT ![article_id] = @ + 1]
                /\ index' = added.index
                /\ index_text' = [id \in added.index |->
                                     IF id = article_id /\ added.upserted
                                     THEN article_text[article_id] + 1
                                     ELSE index_text[id]]
                /\ chroma_client' = added.client
                /\ chroma_collections' = added.collections
                /\ embedding_models' = added.models
                /\ CollectionIdsAfter(added.collections)
           ELSE UNCHANGED <<article_text, index, index_text, chroma_client,
                            chroma_collections, embedding_models, collectionVars>>
    /\ UNCHANGED <<lifecycleVars, composeVars, routerVars, EMBEDDING_AVAILABLE,
                   kb, kbNextId, search, loads, pc>>

UpdateArticle ==
    \E article_id \in 1..MaxArticles, changes_text \in BOOLEAN :
        \E outcome \in (IF changes_text THEN OutcomesFor(None) ELSE {"ok"}) :
            update_article(article_id, changes_text, outcome)

\* initialize_vector_db.  get_chroma_collection() caches a handle if none
\* is cached; delete_collection drops the collection with its entries and
\* create_collection makes a new one, whose handle goes to a local
\* variable; add_article_to_vector_db then takes the cached handle for
\* every article.  With "index_raises" delete_collection fails, so
\* create_collection fails on the existing name and the function ends in
\* its except clause.
initialize_vector_db(outcome) ==
    LET got == get_chroma_collection(outcome)
        emb == generate_embedding(None, outcome)
        found_collection == IF store_collection = 0 THEN 1 ELSE store_collection
        handle == IF "knowledge_base" \in chroma_collections
                  THEN cached_collection ELSE found_collection
        created_collection == found_collection + 1
        \* the articles whose upsert goes through
        upserted == {id \in kb : emb.embedded /\ handle = created_collection}
    IN  IF ~EMBEDDING_AVAILABLE
        THEN /\ search' = [op |-> "initialize_vector_db", outcome |-> outcome,
                           raised |-> FALSE]
             /\ UNCHANGED <<index, index_text, chroma_client, chroma_collections,
                            embedding_models, collectionVars>>
        ELSE IF got.raised
        THEN /\ search' = [op |-> "initialize_vector_db", outcome |-> outcome,
                           raised |-> TRUE]
             /\ chroma_client' = got.client
             /\ chroma_collections' = got.collections
             /\ UNCHANGED <<index, index_text, embedding_models, collectionVars>>
        ELSE /\ search' = [op |-> "initialize_vector_db", outcome |-> outcome,
                           raised |-> FALSE]
             /\ chroma_client' = got.client
             /\ chroma_collections' = got.collections
             /\ cached_collection' = handle
             /\ IF outcome = "index_raises"
                THEN /\ store_collection' = found_collection
                     /\ UNCHANGED <<index, index_text, embedding_models>>
                ELSE /\ store_collection' = created_collection
                     /\ index' = upserted
                     /\ index_text' = [id \in upserted |-> article_text[id]]
                     /\ embedding_models' =
                            (IF kb = {} THEN embedding_models ELSE emb.models)

InitializeVectorDb ==
    /\ store_collection < MaxCollections
    /\ \E outcome \in OutcomesFor(None) : initialize_vector_db(outcome)
    /\ UNCHANGED <<lifecycleVars, composeVars, routerVars, EMBEDDING_AVAILABLE,
                   kb, kbNextId, article_text, loads, pc>>

\* The knowledge base is edited and the index rebuilt.
NextEdit ==
    \/ CreateArticle
    \/ UpdateArticle
    \/ DeleteArticle
    \/ InitializeVectorDb

SpecEdit == InitAnyBuild /\ [][NextEdit]_vars

\* The knowledge base is edited and searched.
NextKb ==
    \/ CreateArticle
    \/ UpdateArticle
    \/ DeleteArticle
    \/ SearchKnowledgeBase

SpecKb == InitAnyBuild /\ [][NextKb]_vars

\* C25: the index entry (and with it the embedding cached on the row) of an
\* article is never computed from a title and content the article no
\* longer has: after update_article changed them it is recomputed or gone,
\* also when the embedding step fails.
C25_NoStaleEmbedding ==
    \A id \in kb \cap index : index_text[id] = article_text[id]

\* C27: after initialize_vector_db has run with embeddings available and
\* nothing failing, the handle get_chroma_collection returns is the one of
\* the newly created collection, and that collection has an entry for
\* every article of the knowledge base.
C27_RebuiltCollectionIsServed ==
    (/\ search.op = "initialize_vector_db"
     /\ EMBEDDING_AVAILABLE
     /\ search.outcome = "ok")
        => /\ ~StaleHandle
           /\ cached_collection = store_collection
           /\ kb \subseteq index

\* C28: whatever create_article, update_article and delete_article calls
\* came before, a search returns only articles that are in the knowledge
\* base when it runs, on the vector path and on the keyword path.
C28_SearchReturnsOnlyRows ==
    [][IsSearchStep =>
          \A i \in 1..Len(search'.results) : search'.results[i].id \in kb']_vars

\* C28 witness: a vector search returned results while the index still held
\* the entry of a deleted article.
C28_Witness ==
    /\ search.op = "search"
    /\ search.path = "vector"
    /\ search.top_k = TopK
    /\ index \ kb # {}
    /\ search.results # <<>>
    /\ \A i \in 1..Len(search.results) : search.results[i].id \in kb

\* ---------------------------------------------------------------------
\* Conversations: routers/conversations.py and the auto-archive of
\* middleware/demo_mode.py.

MaxConversations == 2   \* conversation rows ever created

\* An Optional[int]: None, or a value.
NoScore == [isNone |-> TRUE, value |-> 0]
Score(v) == [isNone |-> FALSE, value |-> v]

\* ConversationStatus
ConversationStatus == {"active", "resolved", "escalated"}

\* ConversationUpdate: a status or none, a csat_score or none.
UpdateStatuses == ConversationStatus \cup {None}
UpdateScores == {NoScore} \cup {Score(v) : v \in {-1, 0, 1, 5, 6}}

\* Any build: DEMO_MODE as the environment sets it.
InitDemo ==
    /\ InitLifecycle /\ InitCompose /\ InitRouter /\ InitRag
    /\ DEMO_MODE \in BOOLEAN

\* The row create_conversation inserts; resolved_at and csat_score are
\* nullable columns without a default.
NewConversation == [status |-> "active", resolved_at |-> None, csat_score |-> NoScore]

\* create_conversation.  The row carries no tenant_id: a table made by
\* create_all (tenant_id NOT NULL) rejects it at the commit, a table the
\* migration added a nullable tenant_id to accepts it.
create_conversation(outcome) ==
    /\ convNextId <= MaxConversations
    /\ IF outcome = "integrity_error"
       THEN /\ resp' = Response("create_conversation", 0, 500, "none", NoBody)
            /\ UNCHANGED <<conversations, convNextId>>
       ELSE /\ conversations' = [i \in DOMAIN conversations \cup {convNextId} |->
                                    IF i = convNextId THEN NewConversation
                                    ELSE conversations[i]]
            /\ convNextId' = convNextId + 1
            /\ resp' = Response("create_conversation", convNextId, 200, "none", NoBody)
    /\ UNCHANGED <<messages, nextId, metrics, everDraft, draftEdited, DEMO_MODE,
                   composeVars, routerVars, ragVars>>

\* update_conversation with a csat_score of any value in place of the
\* range test.
CsatAccepted_AnyScore(csat_score) == ~csat_score.isNone

\* if 1 <= update.csat_score <= 5, under "if update.csat_score is not None"
CsatAccepted(csat_score) ==
    ~csat_score.isNone /\ 1 <= csat_score.value /\ csat_score.value <= 5

\* The EvaluationMetric save_evaluation_metrics stores for a CSAT score.
CsatRow(conversation_id, csat_score) ==
    [message_id |-> None, conversation_id |-> conversation_id,
     csat_score |-> csat_score.value]

\* update_conversation
update_conversation(conversation_id, status, csat_score) ==
    /\ IF conversation_id \notin DOMAIN conversations
       THEN /\ resp' = Response("update_conversation", conversation_id, 404,
                                "none", NoBody)
            /\ UNCHANGED <<conversations, metrics>>
       ELSE LET conversation == conversations[conversation_id]
                with_status ==
                    IF status = None THEN conversation
                    ELSE [conversation EXCEPT
                              !.status = status,
                              !.resolved_at = IF status = "resolved" THEN "utcnow"
                                              ELSE @]
                updated ==
                    IF CsatAccepted(csat_score)
                    THEN [with_status EXCEPT !.csat_score = csat_score]
                    ELSE with_status
            IN  /\ CsatAccepted(csat_score) => Len(metrics) < MaxMetrics
                /\ conversations' = [conversations EXCEPT ![conversation_id] = updated]
                /\ metrics' = IF CsatAccepted(csat_score)
                              THEN Append(metrics, CsatRow(conversation_id, csat_score))
                              ELSE metrics
                /\ resp' = Response("update_conversation", conversation_id, 200,
                                    IF csat_score.isNone THEN "none"
                                    ELSE IF CsatAccepted(csat_score) THEN "saved"
                                    ELSE "ignored",
                                    NoBody)
    /\ UNCHANGED <<messages, nextId, everDraft, draftEdited, convNextId, DEMO_MODE,
                   composeVars, routerVars, ragVars>>

\* auto_archive_old_conversations; the conversations created before the
\* cutoff time are those with an id up to cutoff.
auto_archive_old_conversations(cutoff) ==
    /\ conversations' =
           [i \in DOMAIN conversations |->
               IF DEMO_MODE /\ conversations[i].status = "active" /\ i <= cutoff
               THEN [conversations[i] EXCEPT !.status = "resolved",
                                             !.resolved_at = "utcnow"]
               ELSE conversations[i]]
    /\ resp' = Response("auto_archive_old_conversations", cutoff, 0, "none", NoBody)
    /\ UNCHANGED <<messages, nextId, metrics, everDraft, draftEdited, convNextId,
                   DEMO_MODE, composeVars, routerVars, ragVars>>

CreateConversation ==
    \E outcome \in {"ok", "integrity_error"} : create_conversation(outcome)

UpdateConversation ==
    \E conversation_id \in 1..MaxConversations, status \in UpdateStatuses,
       csat_score \in UpdateScores :
        update_conversation(conversation_id, status, csat_score)

AutoArchiveOldConversations ==
    \E cutoff \in 0..MaxConversations : auto_archive_old_conversations(cutoff)

NextConversations ==
    \/ CreateConversation
    \/ UpdateConversation
    \/ AutoArchiveOldConversations

SpecConversations == InitDemo /\ [][NextConversations]_vars

\* The CSAT metrics stored for a conversation, as positions in the table.
CsatMetricsOf(i) == {k \in 1..Len(metrics) : metrics[k].conversation_id = i}

\* C30: a resolved conversation has a resolved_at; a csat_score that is set
\* is in 1..5; an out-of-range score of an update is ignored and creates no
\* evaluation metric: every metric carries a score in 1..5, and the score of
\* a conversation is the one of its latest metric, or unset without one.
C30_ResolvedAndCsatInvariant ==
    /\ \A i \in DOMAIN conversations :
           /\ conversations[i].status = "resolved"
                  => conversations[i].resolved_at # None
           /\ ~conversations[i].csat_score.isNone
                  => conversations[i].csat_score.value \in 1..5
           /\ IF CsatMetricsOf(i) = {}
              THEN conversations[i].csat_score.isNone
              ELSE \E last \in CsatMetricsOf(i) :
                      /\ \A k \in CsatMetricsOf(i) : k <= last
                      /\ conversations[i].csat_score = Score(metrics[last].csat_score)
    /\ \A k \in 1..Len(metrics) : metrics[k].csat_score \in 1..5

\* C30 witness: an update with an out-of-range csat_score was ignored on a
\* conversation that the auto-archive or an update had resolved and that
\* keeps the score of an earlier update.
C30_Witness ==
    /\ resp.op = "update_conversation"
    /\ resp.eval = "ignored"
    /\ resp.id \in DOMAIN conversations
    /\ conversations[resp.id].status = "resolved"
    /\ conversations[resp.id].resolved_at # None
    /\ conversations[resp.id].csat_score = Score(5)
    /\ Len(metrics) = 1

====
